---- MODULE Spec2Model ----
(***************************************************************************)
(* Model of the two concurrent components of libtailscale:                  *)
(*   - multiTUN (src/libtailscale/store.go:142-441): the owner goroutine    *)
(*     run(), the per-device goroutines readFrom() and runDevice(), and the *)
(*     callers of add/Read/Write/MTU/Name/Shutdown/Close;                   *)
(*   - the proxy service singleton (src/libtailscale/proxy.go:30-98):       *)
(*     startProxyService / stopProxyService under proxyMu.                  *)
(* Go channels: an unbuffered send is a rendezvous with a receiver, a       *)
(* select takes any ready case, closing a closed channel panics.            *)
(***************************************************************************)
EXTENDS Integers, Sequences, FiniteSets, TLC

\* Number of devices handed to add() over a run.
MaxDev == 3
\* Number of ProxyService instances created over a run.
MaxInst == 3
\* Number of goroutines calling startProxyService / stopProxyService.
NumThreads == 2

Devs == 1..MaxDev
Insts == 1..MaxInst
Threads == 1..NumThreads
\* Connections a client opens to the proxy port
MaxConn == 2
Conns == 1..MaxConn

\* const defaultMTU = 1280
defaultMTU == 1280

\* What the underlying tun.Device number i answers to MTU() and Name().
DevMTU(i) == 1400 + i
DevNames == <<"tun1", "tun2", "tun3", "tun4", "tun5", "tun6">>
DevName(i) == DevNames[i]

VARIABLES
  \* ---- multiTUN.run: locals of the owner goroutine
  devices,     \* var devices []*tunDevice (sequence of device numbers, oldest first)
  readDone,    \* var readDone chan struct{}: 0 = nil, i = devices i's readDone
  runDone,     \* var runDone chan error:     0 = nil, i = devices i's closeDone
  opc,         \* where the owner is: "select", "shutCloseDone", "shutReadDone",
               \* "closeWait", "exited"
  oidx,        \* index of the range loop of the shutdowns / close case
  \* ---- tunDevice wrappers and the goroutines started for them
  devClose,    \* tunDevice.close is closed
  closeCalls,  \* how often dev.dev.Close() was called (capped at 2)
  rdDoneBuf,   \* number of values buffered in tunDevice.readDone (capacity 1)
  rd,          \* readFrom(dev): "none", "idle" (in select), "exited"
  wr,          \* runDevice(dev): "none", "idle" (in select), "closing" (sending closeDone), "exited"
  \* ---- multiTUN
  dclose,      \* multiTUN.close is closed
  panicked,    \* "none", or the panic that ended the process
  nAdded,      \* number of add() calls that have returned
  \* ---- the goroutine calling Read
  rdrPc,       \* "idle", "sending" (d.reads <- req)
  lastRead,    \* the reply of the last Read that returned: [got, err, stop]
  \* ---- the goroutine calling Write
  wtrPc,       \* "idle", "sending" (d.writes <- req)
  wtrAdds,     \* nAdded when the pending call was made
  \* ---- the goroutine calling add / Shutdown / MTU / Name
  ctlPc,       \* "idle", "sending", "waiting" (<-d.shutdownDone)
  ctlOp,       \* "none", "add", "shutdown", "mtu", "name"
  ctlReply,    \* the last mtuReply / nameReply: [kind, mtu, name, err]
  shutAt,      \* nAdded when the last Shutdown returned, -1 if none has
  \* ---- the goroutine calling Close
  closer,      \* "idle", "waiting" (<-d.closeErr), "returned"
  \* ---- which history variable a specification records: "none", "read"
  \* (lastRead), "write" (wtrAdds), "reuse" (shutAt); the others keep their
  \* initial value
  obs,
  \* ---- proxy service
  proxyMu,     \* 0 = unlocked, t = held by thread t
  globalProxyService, \* 0 = nil, k = instance k
  running,     \* ProxyService.running, per instance
  listenerOpen,\* the instance's listener is bound and not closed
  cancelled,   \* the instance's context is cancelled
  nInst,       \* instances created so far
  portBusy,    \* the port is held by another process
  tpc,         \* per thread: position in startProxyService / stopProxyService
  tres,        \* per thread: result of the last call: "none", "nil", "err"
  \* ---- proxy service: accept loops and connections
  servePc,     \* per instance, serve(): "none", "select", "accept", "exited"
  cst,         \* per connection: "none", "handling", "relaying", "closed"
  cown,        \* per connection: the instance whose serve() accepted it, 0 = none
  \* ---- proxy service: one connection seen by its handleConnection goroutine
  variant,     \* "socks" (proxy.go) or "http" (the HTTP-only service)
  stream,      \* the bytes the client sends, in order
  endKind,     \* after them the client closes ("close") or goes silent ("stall")
  cpos,        \* bytes the bufio.Reader has taken from the connection
  rbuf,        \* bytes held in the bufio.Reader's buffer, not yet read
  deadline,    \* a read deadline is set on the connection
  hpc,         \* position of the handler
  protocol,    \* result of detectProtocol, "" before
  hloc,        \* locals of the handler: [n, atyp, host]
  seen,        \* bytes the protocol handler has read from the reader, in order
  written,     \* frames written to the client, in order: [tag, bytes]
  dialed,      \* calls of net.DialTimeout, in order: [atyp, host, port, ok]
  \* ---- proxy service: relay(client, target) of that connection
  c2t,         \* the goroutine copying client to target: "none", "copy", "close",
               \* "signal" (done <- struct{}{}), "done"
  t2c,         \* the goroutine copying target to client, likewise
  done,        \* number of values in the channel done (capacity 2)
  nclose,      \* Close calls made so far on [client, target]
  rtaken,      \* bytes io.Copy has read from the client connection
  toTarget,    \* bytes written to the target, in order
  tpos,        \* bytes io.Copy has read from the target connection
  tstream,     \* the bytes the target sends, in order
  tEnd,        \* after them the target closes ("close") or goes silent ("stall")
  \* ---- multiTUN: the errors of the devices' Close
  closeDone,   \* per device: the value of dev.dev.Close() sent on tunDevice.closeDone
               \* by its last runDevice: 0 = nil, i = the error of device i
  derr,        \* var derr error of the close case, 0 = nil
  closeRet,    \* what Close() returned: "none" before, 0 = nil, i = the error of device i
  \* ---- multiTUN: the goroutines runDevice starts to forward events
  fw,          \* per device: "none", "idle" (in select), "sending" (d.events <- e),
               \* "exited"
  \* ---- multiTUN: history of the device calls made for Read and Write
  lastIO,      \* the last dev.dev.Read / dev.dev.Write served, recorded when obs is
               \* "io": [op, dev, ioErr (the device call failed), err (the reply)]
  \* ---- runBackendOnce: the main loop and the settings callback
  bpc,         \* where the main loop is: "select", or a position inside a case
  bret,        \* the case that called updateTUN: "none", "state", "configs", "vpn"
  bctx,        \* the caller of CloseTUNs: "none", "update", "fail" (closeVpnService),
               \* "disconnect"
  bres,        \* the result of the last updateTUN, or the reply to send: "nil", "err"
  bsvc,        \* the service received by the onDisconnect case, 0 before
  started,     \* state >= ipn.Starting
  service,     \* vpnService.service: 0 = nil, s = the service with ID s
  cfg,         \* var cfg configPair: [r, d], r = 0 for a nil rcfg
  lastCfg,     \* b.lastCfg, 0 = nil
  lastDNSCfg,  \* b.lastDNSCfg, 0 = nil
  cbPc,        \* the settings callback: "idle", "sending" (configs <- pair),
               \* "waiting" (<-configErrs)
  cbCfg,       \* the pair the callback was called with
  cbRes        \* what the last call of the callback returned: "none", "nil", "err"

muxVars == <<devices, readDone, runDone, opc, oidx, devClose, closeCalls, rdDoneBuf,
             rd, wr, dclose, panicked, nAdded, rdrPc, lastRead, wtrPc, wtrAdds, ctlPc, ctlOp, ctlReply, shutAt, closer, obs>>
proxyVars == <<proxyMu, globalProxyService, running, listenerOpen, cancelled, nInst,
               portBusy, tpc, tres>>
srvVars == <<servePc, cst, cown>>
copyVars == <<c2t, t2c, done, nclose, rtaken, toTarget, tpos>>
tgtVars == <<tstream, tEnd>>
relVars == <<copyVars, tgtVars>>
hsVars == <<variant, stream, endKind, cpos, rbuf, deadline, hpc, protocol, hloc, seen,
            written, dialed, relVars>>
netVars == <<srvVars, hsVars>>
cerrVars == <<closeDone, derr, closeRet>>
evVars == <<fw>>
ioVars == <<lastIO>>
bkVars == <<bpc, bret, bctx, bres, bsvc, started, service, cfg, lastCfg, lastDNSCfg,
            cbPc, cbCfg, cbRes>>
extVars == <<cerrVars, evVars, ioVars, bkVars>>
vars == <<muxVars, proxyVars, netVars, extVars>>

NoRead == [got |-> FALSE, err |-> FALSE, stop |-> FALSE]
NoReply == [kind |-> "none", mtu |-> 0, name |-> "", err |-> FALSE]
NoIO == [op |-> "none", dev |-> 0, ioErr |-> FALSE, err |-> FALSE]

\* newTUNDevices(): channels made, go d.run(); run's locals are zero values.
InitMux(o) ==
  /\ obs = o
  /\ devices = <<>>
  /\ readDone = 0
  /\ runDone = 0
  /\ opc = "select"
  /\ oidx = 0
  /\ devClose = [i \in Devs |-> FALSE]
  /\ closeCalls = [i \in Devs |-> 0]
  /\ rdDoneBuf = [i \in Devs |-> 0]
  /\ rd = [i \in Devs |-> "none"]
  /\ wr = [i \in Devs |-> "none"]
  /\ dclose = FALSE
  /\ panicked = "none"
  /\ nAdded = 0
  /\ rdrPc = "idle"
  /\ lastRead = NoRead
  /\ wtrPc = "idle"
  /\ wtrAdds = 0
  /\ ctlPc = "idle"
  /\ ctlOp = "none"
  /\ ctlReply = NoReply
  /\ shutAt = -1
  /\ closer = "idle"
  /\ closeDone = [i \in Devs |-> 0]
  /\ derr = 0
  /\ closeRet = "none"
  /\ fw = [i \in Devs |-> "none"]
  /\ lastIO = NoIO

NoCfg == [r |-> 0, d |-> 0]

\* runBackendOnce before its loop: zero values, no VPN service, no call of the
\* settings callback in flight.
InitBackend ==
  /\ bpc = "select"
  /\ bret = "none"
  /\ bctx = "none"
  /\ bres = "nil"
  /\ bsvc = 0
  /\ started = FALSE
  /\ service = 0
  /\ cfg = NoCfg
  /\ lastCfg = 0
  /\ lastDNSCfg = 0
  /\ cbPc = "idle"
  /\ cbCfg = NoCfg
  /\ cbRes = "none"

\* var globalProxyService *ProxyService; var proxyMu sync.Mutex
InitProxy ==
  /\ proxyMu = 0
  /\ globalProxyService = 0
  /\ running = [k \in Insts |-> FALSE]
  /\ listenerOpen = [k \in Insts |-> FALSE]
  /\ cancelled = [k \in Insts |-> FALSE]
  /\ nInst = 0
  /\ portBusy = FALSE
  /\ tpc = [t \in Threads |-> "idle"]
  /\ tres = [t \in Threads |-> "none"]

\* No serve() goroutine runs and no connection has been accepted.
InitSrv ==
  /\ servePc = [k \in Insts |-> "none"]
  /\ cst = [c \in Conns |-> "none"]
  /\ cown = [c \in Conns |-> 0]

NoLocals == [n |-> 0, atyp |-> 0, host |-> <<>>]

\* handleConnection is entered with the connection conn of variant v, on which
\* the client sends s and then ends as e; nothing is read or written yet.
\* No relay has been called and no target dialed.
InitRelay ==
  /\ c2t = "none"
  /\ t2c = "none"
  /\ done = 0
  /\ nclose = [client |-> 0, target |-> 0]
  /\ rtaken = 0
  /\ toTarget = <<>>
  /\ tpos = 0
  /\ tstream = <<>>
  /\ tEnd = "stall"

InitHandler(v, s, e, pc) ==
  /\ variant = v
  /\ stream = s
  /\ endKind = e
  /\ cpos = 0
  /\ rbuf = <<>>
  /\ deadline = FALSE
  /\ hpc = pc
  /\ protocol = ""
  /\ hloc = NoLocals
  /\ seen = <<>>
  /\ written = <<>>
  /\ dialed = <<>>
  /\ InitRelay

InitNet == InitSrv /\ InitHandler("socks", <<>>, "close", "none")

Alive == panicked = "none"
Last(s) == s[Len(s)]
Min2(n) == IF n >= 2 THEN 2 ELSE n

(***************************************************************************)
(* multiTUN: the per-device goroutines                                      *)
(***************************************************************************)

\* readFrom, lines 316-324: a failed dev.Read stops the goroutine only when
\* dev.close is closed.
ReadStop(ioErr, closed) == ioErr /\ closed

\* Mutant of ReadReplyErr: the error of the failed dev.Read is replied on stop too.
ReadReplyErrKept(ioErr, stop) == ioErr

\* readFrom, lines 321 and 325: the error replied to the caller (err = nil on stop).
ReadReplyErr(ioErr, stop) == ioErr /\ ~stop

\* What dev.dev.Read / dev.dev.Write can return: the call fails once the
\* underlying device has been closed, and may fail at any time before.
DevIOErrs(i) == IF closeCalls[i] > 0 THEN {TRUE} ELSE BOOLEAN

\* readFrom: case r := <-d.reads (the rendezvous with Read's d.reads <- req):
\* dev.dev.Read, the reply, and on stop the return with its deferred
\* dev.readDone <- struct{}{} (buffered, capacity 1).
ReadFromServe(i) ==
  /\ Alive
  /\ rd[i] = "idle"
  /\ rdrPc = "sending"
  /\ \E ioErr \in DevIOErrs(i) :
       LET stop == ReadStop(ioErr, devClose[i]) IN
       /\ lastRead' = IF obs = "read"
                        THEN [got |-> TRUE, err |-> ReadReplyErr(ioErr, stop), stop |-> stop]
                        ELSE NoRead
       /\ rd' = [rd EXCEPT ![i] = IF stop THEN "exited" ELSE "idle"]
       /\ rdDoneBuf' = IF stop THEN [rdDoneBuf EXCEPT ![i] = 1] ELSE rdDoneBuf
       /\ lastIO' = IF obs = "io"
                      THEN [op |-> "read", dev |-> i, ioErr |-> ioErr,
                            err |-> ReadReplyErr(ioErr, stop)]
                      ELSE NoIO
  /\ rdrPc' = "idle"
  /\ UNCHANGED <<devices, readDone, runDone, opc, oidx, devClose, closeCalls, wr, dclose,
                 panicked, nAdded, wtrPc, wtrAdds, ctlPc, ctlOp, ctlReply, shutAt, closer,
                 obs, proxyVars, netVars, cerrVars, evVars, bkVars>>

\* readFrom: case <-d.close: return, then the deferred send on dev.readDone.
ReadFromClosed(i) ==
  /\ Alive
  /\ rd[i] = "idle"
  /\ dclose
  /\ rd' = [rd EXCEPT ![i] = "exited"]
  /\ rdDoneBuf' = [rdDoneBuf EXCEPT ![i] = 1]
  /\ UNCHANGED <<devices, readDone, runDone, opc, oidx, devClose, closeCalls, wr, dclose,
                 panicked, nAdded, rdrPc, lastRead, wtrPc, wtrAdds, ctlPc, ctlOp, ctlReply,
                 shutAt, closer, obs, proxyVars, netVars, extVars>>

\* Mutant of WriteReplyErr: the error of a failed dev.Write is not replied.
WriteReplyErrDropped(ioErr) == FALSE

\* runDevice, lines 367-368: the error replied to the caller of Write.
WriteReplyErr(ioErr) == ioErr

\* runDevice: case w := <-d.writes: dev.dev.Write, then the reply.
RunDeviceWrite(i) ==
  /\ Alive
  /\ wr[i] = "idle"
  /\ wtrPc = "sending"
  /\ wtrPc' = "idle"
  /\ wtrAdds' = 0
  /\ \E ioErr \in DevIOErrs(i) :
       lastIO' = IF obs = "io"
                   THEN [op |-> "write", dev |-> i, ioErr |-> ioErr,
                         err |-> WriteReplyErr(ioErr)]
                   ELSE NoIO
  /\ UNCHANGED <<devices, readDone, runDone, opc, oidx, devClose, closeCalls, rdDoneBuf,
                 rd, wr, dclose, panicked, nAdded, rdrPc, lastRead, ctlPc, ctlOp, ctlReply,
                 shutAt, closer, obs, proxyVars, netVars, cerrVars, evVars, bkVars>>

\* What dev.dev.Close() of device i can return: nil, or an error of its own.
\* Only the specification that observes Close's result tells them apart.
CloseResults(i) == IF obs = "close" THEN {0, i} ELSE {0}

\* runDevice: case <-dev.close or case <-d.close: return; the deferred
\* dev.closeDone <- dev.dev.Close() calls Close and then blocks in the send.
RunDeviceReturn(i) ==
  /\ Alive
  /\ wr[i] = "idle"
  /\ devClose[i] \/ dclose
  /\ wr' = [wr EXCEPT ![i] = "closing"]
  /\ closeCalls' = [closeCalls EXCEPT ![i] = Min2(@ + 1)]
  /\ \E err \in CloseResults(i) : closeDone' = [closeDone EXCEPT ![i] = err]
  /\ UNCHANGED <<devices, readDone, runDone, opc, oidx, devClose, rdDoneBuf, rd, dclose,
                 panicked, nAdded, rdrPc, lastRead, wtrPc, wtrAdds, ctlPc, ctlOp, ctlReply,
                 shutAt, closer, obs, proxyVars, netVars, derr, closeRet, evVars, ioVars, bkVars>>

\* runDevice, lines 348-363: the goroutine that forwards the device's events
\* is started with every runDevice of the device; one that is still running
\* for the same device goes on.
EventsStart(i) == [fw EXCEPT ![i] = IF @ = "sending" THEN "sending" ELSE "idle"]

\* The select of the event goroutine: case e := <-dev.dev.Events() when the
\* device has an event, case <-dev.close when dev.close is closed; with both
\* ready either is taken.
EventsSelect(i) ==
  IF devClose[i] THEN {"sending", "exited"} ELSE {"sending"}

\* The event goroutine of device i takes a case of its select.
RunDeviceEvents(i) ==
  /\ Alive
  /\ fw[i] = "idle"
  /\ \E to \in EventsSelect(i) : fw' = [fw EXCEPT ![i] = to]
  /\ UNCHANGED <<muxVars, proxyVars, netVars, cerrVars, ioVars, bkVars>>

\* d.events <- e: the reader of Events() receives the event of device i.
RunDeviceEventsSend(i) ==
  /\ Alive
  /\ fw[i] = "sending"
  /\ fw' = [fw EXCEPT ![i] = "idle"]
  /\ UNCHANGED <<muxVars, proxyVars, netVars, cerrVars, ioVars, bkVars>>

(***************************************************************************)
(* multiTUN.run: the owner goroutine, one action per select case (the       *)
(* shutdowns and close cases block inside their loops and take several)     *)
(***************************************************************************)

\* case <-readDone: drop devices[0], start readFrom on the next oldest.
\* devices[1:] on an empty slice is a run-time panic.
RunReadDone ==
  /\ Alive
  /\ opc = "select"
  /\ readDone # 0
  /\ rdDoneBuf[readDone] > 0
  /\ rdDoneBuf' = [rdDoneBuf EXCEPT ![readDone] = 0]
  /\ IF devices = <<>>
       THEN /\ panicked' = "run, readDone case: slice bounds out of range"
            /\ UNCHANGED <<devices, readDone, rd>>
       ELSE /\ devices' = Tail(devices)
            /\ IF Tail(devices) # <<>>
                 THEN /\ readDone' = Head(Tail(devices))
                      /\ rd' = [rd EXCEPT ![Head(Tail(devices))] = "idle"]
                 ELSE UNCHANGED <<readDone, rd>>
            /\ UNCHANGED panicked
  /\ UNCHANGED <<runDone, opc, oidx, devClose, closeCalls, wr, dclose, nAdded, rdrPc,
                 lastRead, wtrPc, wtrAdds, ctlPc, ctlOp, ctlReply, shutAt, closer, obs,
                 proxyVars, netVars, extVars>>

\* case <-runDone: the write goroutine finished; start runDevice on the newest
\* device of the list, whichever it is.
RunRunDone ==
  /\ Alive
  /\ opc = "select"
  /\ runDone # 0
  /\ wr[runDone] = "closing"
  /\ IF devices # <<>>
       THEN /\ runDone' = Last(devices)
            /\ wr' = [[wr EXCEPT ![runDone] = "exited"] EXCEPT ![Last(devices)] = "idle"]
            /\ fw' = EventsStart(Last(devices))
       ELSE /\ wr' = [wr EXCEPT ![runDone] = "exited"]
            /\ UNCHANGED <<runDone, fw>>
  /\ UNCHANGED <<devices, readDone, opc, oidx, devClose, closeCalls, rdDoneBuf, rd, dclose,
                 panicked, nAdded, rdrPc, lastRead, wtrPc, wtrAdds, ctlPc, ctlOp, ctlReply,
                 shutAt, closer, obs, proxyVars, netVars, cerrVars, ioVars, bkVars>>

\* Mutant of ShutdownLeaves: the list is not reset.
ShutdownLeavesList(devs) == devs

\* The list the shutdowns case leaves behind: devices = nil.
ShutdownLeaves(devs) == <<>>

\* The shutdowns loop reaches index k: past the end it sets devices = nil and
\* sends shutdownDone (Shutdown returns); otherwise close(dev.close), which
\* panics on a closed channel, and then it waits in <-dev.closeDone.
ShutdownStep(k) ==
  IF k > Len(devices)
    THEN /\ devices' = ShutdownLeaves(devices)
         /\ opc' = "select"
         /\ oidx' = 0
         /\ ctlPc' = "idle"
         /\ shutAt' = IF obs = "reuse" THEN nAdded ELSE -1
         /\ UNCHANGED <<devClose, panicked>>
    ELSE /\ IF devClose[devices[k]]
              THEN /\ panicked' = "run, shutdowns case: close of closed channel"
                   /\ UNCHANGED <<devClose, opc, oidx>>
              ELSE /\ devClose' = [devClose EXCEPT ![devices[k]] = TRUE]
                   /\ opc' = "shutCloseDone"
                   /\ oidx' = k
                   /\ UNCHANGED panicked
         /\ ctlPc' = "waiting"
         /\ UNCHANGED <<devices, shutAt>>

\* case <-d.shutdowns
RunShutdown ==
  /\ Alive
  /\ opc = "select"
  /\ ctlPc = "sending"
  /\ ctlOp = "shutdown"
  /\ ShutdownStep(1)
  /\ UNCHANGED <<readDone, runDone, closeCalls, rdDoneBuf, rd, wr, dclose, nAdded, rdrPc,
                 lastRead, wtrPc, wtrAdds, ctlOp, ctlReply, closer, obs, proxyVars, netVars, extVars>>

\* shutdowns case: <-dev.closeDone
RunShutdownCloseDone ==
  /\ Alive
  /\ opc = "shutCloseDone"
  /\ wr[devices[oidx]] = "closing"
  /\ wr' = [wr EXCEPT ![devices[oidx]] = "exited"]
  /\ opc' = "shutReadDone"
  /\ UNCHANGED <<devices, readDone, runDone, oidx, devClose, closeCalls, rdDoneBuf, rd,
                 dclose, panicked, nAdded, rdrPc, lastRead, wtrPc, wtrAdds, ctlPc, ctlOp,
                 ctlReply, shutAt, closer, obs, proxyVars, netVars, extVars>>

\* shutdowns case: <-dev.readDone, then the next device of the loop
RunShutdownReadDone ==
  /\ Alive
  /\ opc = "shutReadDone"
  /\ rdDoneBuf[devices[oidx]] > 0
  /\ rdDoneBuf' = [rdDoneBuf EXCEPT ![devices[oidx]] = 0]
  /\ ShutdownStep(oidx + 1)
  /\ UNCHANGED <<readDone, runDone, closeCalls, rd, wr, dclose, nAdded, rdrPc, lastRead,
                 wtrPc, wtrAdds, ctlOp, ctlReply, closer, obs, proxyVars, netVars, extVars>>

\* Mutant of Derr: derr is never assigned.
DerrKept(d, err) == d

\* close case, lines 257-259: if err := <-dev.closeDone; err != nil { derr = err }
Derr(d, err) == IF err # 0 THEN err ELSE d

\* The close loop reaches index k with derr = e: past the end it sends derr on
\* closeErr (Close returns it) and run returns; otherwise it waits in
\* <-dev.closeDone.
CloseStep(k, e) ==
  /\ derr' = e
  /\ IF k > Len(devices)
       THEN /\ opc' = "exited"
            /\ oidx' = 0
            /\ closer' = "returned"
            /\ closeRet' = e
       ELSE /\ opc' = "closeWait"
            /\ oidx' = k
            /\ UNCHANGED <<closer, closeRet>>

\* case <-d.close
RunClose ==
  /\ Alive
  /\ opc = "select"
  /\ dclose
  /\ CloseStep(1, 0)
  /\ UNCHANGED <<devices, readDone, runDone, devClose, closeCalls, rdDoneBuf, rd, wr,
                 dclose, panicked, nAdded, rdrPc, lastRead, wtrPc, wtrAdds, ctlPc, ctlOp,
                 ctlReply, shutAt, obs, proxyVars, netVars, closeDone, evVars, ioVars, bkVars>>

\* close case: err := <-dev.closeDone, then the next device of the loop
RunCloseWait ==
  /\ Alive
  /\ opc = "closeWait"
  /\ wr[devices[oidx]] = "closing"
  /\ wr' = [wr EXCEPT ![devices[oidx]] = "exited"]
  /\ CloseStep(oidx + 1, Derr(derr, closeDone[devices[oidx]]))
  /\ UNCHANGED <<devices, readDone, runDone, devClose, closeCalls, rdDoneBuf, rd, dclose,
                 panicked, nAdded, rdrPc, lastRead, wtrPc, wtrAdds, ctlPc, ctlOp, ctlReply,
                 shutAt, obs, proxyVars, netVars, closeDone, evVars, ioVars, bkVars>>

\* Mutant of AddStarts: both goroutines are started for every added device.
AddStartsAlways(devs) == TRUE

\* devices case, line 275: the goroutines of the new device are started at
\* once only when the list is empty.
AddStarts(devs) == Len(devs) = 0

\* case dev := <-d.devices: close(prev.close) when the list is not empty, wrap
\* the device, start both goroutines only when the list is empty, append.
\* add() returns at the receive.
RunAdd ==
  /\ Alive
  /\ opc = "select"
  /\ ctlPc = "sending"
  /\ ctlOp = "add"
  /\ LET w == nAdded + 1 IN
     IF devices # <<>> /\ devClose[Last(devices)]
       THEN /\ panicked' = "run, devices case: close of closed channel"
            /\ UNCHANGED <<devices, readDone, runDone, devClose, rd, wr, fw>>
       ELSE /\ devClose' = IF devices # <<>>
                             THEN [devClose EXCEPT ![Last(devices)] = TRUE]
                             ELSE devClose
            /\ IF AddStarts(devices)
                 THEN /\ readDone' = w
                      /\ rd' = [rd EXCEPT ![w] = "idle"]
                      /\ runDone' = w
                      /\ wr' = [wr EXCEPT ![w] = "idle"]
                      /\ fw' = EventsStart(w)
                 ELSE UNCHANGED <<readDone, rd, runDone, wr, fw>>
            /\ devices' = Append(devices, w)
            /\ UNCHANGED panicked
  /\ nAdded' = nAdded + 1
  /\ ctlPc' = "idle"
  /\ UNCHANGED <<opc, oidx, closeCalls, rdDoneBuf, dclose, rdrPc, lastRead, wtrPc, wtrAdds,
                 ctlOp, ctlReply, shutAt, closer, obs, proxyVars, netVars, cerrVars, ioVars, bkVars>>

\* Mutant of MtuReply: the oldest device of the list is asked.
MtuReplyOldest(devs, e) ==
  IF Len(devs) > 0
    THEN [kind |-> "mtu", mtu |-> IF e THEN 0 ELSE DevMTU(Head(devs)), name |-> "", err |-> e]
    ELSE [kind |-> "mtu", mtu |-> defaultMTU, name |-> "", err |-> FALSE]

\* case m := <-d.mtus: the reply, e being whether the device's MTU() failed.
MtuReply(devs, e) ==
  IF Len(devs) > 0
    THEN [kind |-> "mtu", mtu |-> IF e THEN 0 ELSE DevMTU(Last(devs)), name |-> "", err |-> e]
    ELSE [kind |-> "mtu", mtu |-> defaultMTU, name |-> "", err |-> FALSE]

\* case n := <-d.names: the reply, e being whether the device's Name() failed.
NameReply(devs, e) ==
  IF Len(devs) > 0
    THEN [kind |-> "name", mtu |-> 0, name |-> IF e THEN "" ELSE DevName(Last(devs)), err |-> e]
    ELSE [kind |-> "name", mtu |-> 0, name |-> "", err |-> FALSE]

RunMTU ==
  /\ Alive
  /\ opc = "select"
  /\ ctlPc = "sending"
  /\ ctlOp = "mtu"
  /\ \E e \in BOOLEAN : ctlReply' = MtuReply(devices, e)
  /\ ctlPc' = "idle"
  /\ UNCHANGED <<devices, readDone, runDone, opc, oidx, devClose, closeCalls, rdDoneBuf,
                 rd, wr, dclose, panicked, nAdded, rdrPc, lastRead, wtrPc, wtrAdds, ctlOp,
                 shutAt, closer, obs, proxyVars, netVars, extVars>>

RunName ==
  /\ Alive
  /\ opc = "select"
  /\ ctlPc = "sending"
  /\ ctlOp = "name"
  /\ \E e \in BOOLEAN : ctlReply' = NameReply(devices, e)
  /\ ctlPc' = "idle"
  /\ UNCHANGED <<devices, readDone, runDone, opc, oidx, devClose, closeCalls, rdDoneBuf,
                 rd, wr, dclose, panicked, nAdded, rdrPc, lastRead, wtrPc, wtrAdds, ctlOp,
                 shutAt, closer, obs, proxyVars, netVars, extVars>>

(***************************************************************************)
(* multiTUN: the callers                                                    *)
(***************************************************************************)

\* Read: r := make(chan ioReply); d.reads <- ioRequest{...}
Read ==
  /\ Alive
  /\ rdrPc = "idle"
  /\ rdrPc' = "sending"
  /\ lastRead' = NoRead
  /\ UNCHANGED <<devices, readDone, runDone, opc, oidx, devClose, closeCalls, rdDoneBuf,
                 rd, wr, dclose, panicked, nAdded, wtrPc, wtrAdds, ctlPc, ctlOp, ctlReply,
                 shutAt, closer, obs, proxyVars, netVars, extVars>>

\* Write: r := make(chan ioReply); d.writes <- ioRequest{...}
Write ==
  /\ Alive
  /\ wtrPc = "idle"
  /\ wtrPc' = "sending"
  /\ wtrAdds' = IF obs = "write" THEN nAdded ELSE 0
  /\ UNCHANGED <<devices, readDone, runDone, opc, oidx, devClose, closeCalls, rdDoneBuf,
                 rd, wr, dclose, panicked, nAdded, rdrPc, lastRead, ctlPc, ctlOp, ctlReply,
                 shutAt, closer, obs, proxyVars, netVars, extVars>>

\* add / Shutdown / MTU / Name: the send on d.devices / d.shutdowns / d.mtus / d.names
CallSend(op) ==
  /\ Alive
  /\ ctlPc = "idle"
  /\ op = "add" => nAdded < MaxDev
  /\ ctlPc' = "sending"
  /\ ctlOp' = op
  /\ ctlReply' = NoReply
  /\ UNCHANGED <<devices, readDone, runDone, opc, oidx, devClose, closeCalls, rdDoneBuf,
                 rd, wr, dclose, panicked, nAdded, rdrPc, lastRead, wtrPc, wtrAdds, shutAt,
                 closer, obs>>

\* The same, by a caller that is not the backend's main loop.
Call(op) ==
  /\ CallSend(op)
  /\ UNCHANGED <<proxyVars, netVars, extVars>>

\* Close: close(d.close), then <-d.closeErr; on a closed multiTUN
\* close(d.close) panics.
Close ==
  /\ Alive
  /\ closer \in {"idle", "returned"}
  /\ IF dclose
       THEN /\ panicked' = "Close: close of closed channel"
            /\ UNCHANGED <<dclose, closer>>
       ELSE /\ dclose' = TRUE
            /\ closer' = "waiting"
            /\ UNCHANGED panicked
  /\ UNCHANGED <<devices, readDone, runDone, opc, oidx, devClose, closeCalls, rdDoneBuf,
                 rd, wr, nAdded, rdrPc, lastRead, wtrPc, wtrAdds, ctlPc, ctlOp, ctlReply,
                 shutAt, obs, proxyVars, netVars, extVars>>

NextMux ==
  \/ \E i \in Devs : ReadFromServe(i)
  \/ \E i \in Devs : ReadFromClosed(i)
  \/ \E i \in Devs : RunDeviceWrite(i)
  \/ \E i \in Devs : RunDeviceReturn(i)
  \/ RunReadDone
  \/ RunRunDone
  \/ RunShutdown
  \/ RunShutdownCloseDone
  \/ RunShutdownReadDone
  \/ RunClose
  \/ RunCloseWait
  \/ RunAdd
  \/ Read
  \/ Write
  \/ \E op \in {"add", "shutdown"} : Call(op)
  \/ Close

Next == NextMux

Init == InitMux("none") /\ InitProxy /\ InitNet /\ InitBackend
InitRead == InitMux("read") /\ InitProxy /\ InitNet /\ InitBackend
InitWrite == InitMux("write") /\ InitProxy /\ InitNet /\ InitBackend
InitReuse == InitMux("reuse") /\ InitProxy /\ InitNet /\ InitBackend
InitClose == InitMux("close") /\ InitProxy /\ InitNet /\ InitBackend
InitIO == InitMux("io") /\ InitProxy /\ InitNet /\ InitBackend

\* multiTUN under add / Read / Write / Shutdown / Close
Spec == Init /\ [][Next]_vars

\* the same, recording the replies of Read
SpecRead == InitRead /\ [][Next]_vars

\* the same, recording when each Write was called
SpecWrite == InitWrite /\ [][Next]_vars

\* the same, recording the last Shutdown that returned
SpecReuse == InitReuse /\ [][Next]_vars

\* the same, recording the device calls made for Read and Write
SpecIO == InitIO /\ [][Next]_vars

\* the same, with devices whose Close can fail
SpecClose == InitClose /\ [][Next]_vars

NextInfo ==
  \/ NextMux
  \/ RunMTU
  \/ RunName
  \/ \E op \in {"mtu", "name"} : Call(op)

NextEvents ==
  \/ NextMux
  \/ \E i \in Devs : RunDeviceEvents(i)
  \/ \E i \in Devs : RunDeviceEventsSend(i)

\* the same, with the goroutines that forward the devices' events
SpecEvents == Init /\ [][NextEvents]_vars

\* the same, with the callers of MTU and Name
SpecInfo == Init /\ [][NextInfo]_vars

(***************************************************************************)
(* The proxy service singleton: startProxyService and stopProxyService,     *)
(* one action per step of a call, all steps between Lock and Unlock taken   *)
(* by the thread that holds proxyMu                                         *)
(***************************************************************************)
StartPcs == {"startLock", "startCheck", "startListen"}

\* Mutant of StartAlreadyRunning: the check for a running instance is skipped.
StartNeverRunning(g, r) == FALSE

\* line 45: globalProxyService != nil && globalProxyService.running
StartAlreadyRunning(g, r) == g # 0 /\ r[g]

\* Mutant of ListenFails: the bind always succeeds.
ListenNeverFails == FALSE

\* net.Listen("tcp4", "0.0.0.0:8339") fails while the port is bound, by
\* another process or by a listener of this process that is not closed.
ListenFails == portBusy \/ \E k \in Insts : listenerOpen[k]

\* A thread calls startProxyService; every call in flight may need an instance.
StartEnter(t) ==
  /\ tpc[t] = "idle"
  /\ nInst + Cardinality({u \in Threads : tpc[u] \in StartPcs}) < MaxInst
  /\ tpc' = [tpc EXCEPT ![t] = "startLock"]
  /\ tres' = [tres EXCEPT ![t] = "none"]
  /\ UNCHANGED <<proxyMu, globalProxyService, running, listenerOpen, cancelled, nInst, portBusy>>

\* The same, by a caller that is not the backend's main loop.
StartCall(t) ==
  /\ StartEnter(t)
  /\ UNCHANGED <<muxVars, netVars, extVars>>

\* proxyMu.Lock()
StartLock(t) ==
  /\ tpc[t] = "startLock"
  /\ proxyMu = 0
  /\ proxyMu' = t
  /\ tpc' = [tpc EXCEPT ![t] = "startCheck"]
  /\ UNCHANGED <<globalProxyService, running, listenerOpen, cancelled, nInst, portBusy, tres, muxVars, netVars, extVars>>

\* if globalProxyService != nil && globalProxyService.running { return nil }
StartCheck(t) ==
  /\ tpc[t] = "startCheck"
  /\ IF StartAlreadyRunning(globalProxyService, running)
       THEN /\ tres' = [tres EXCEPT ![t] = "nil"]
            /\ tpc' = [tpc EXCEPT ![t] = "idle"]
            /\ proxyMu' = 0
       ELSE /\ tpc' = [tpc EXCEPT ![t] = "startListen"]
            /\ UNCHANGED <<tres, proxyMu>>
  /\ UNCHANGED <<globalProxyService, running, listenerOpen, cancelled, nInst, portBusy, muxVars, netVars, extVars>>

\* listener, err := net.Listen(...); on error return it; otherwise install a
\* fresh instance with running = true, go serve(), return nil; the deferred
\* Unlock.
StartListen(t) ==
  /\ tpc[t] = "startListen"
  /\ IF ListenFails
       THEN /\ tres' = [tres EXCEPT ![t] = "err"]
            /\ UNCHANGED <<globalProxyService, running, listenerOpen, nInst, servePc>>
       ELSE /\ nInst' = nInst + 1
            /\ listenerOpen' = [listenerOpen EXCEPT ![nInst + 1] = TRUE]
            /\ running' = [running EXCEPT ![nInst + 1] = TRUE]
            /\ globalProxyService' = nInst + 1
            /\ servePc' = [servePc EXCEPT ![nInst + 1] = "select"]
            /\ tres' = [tres EXCEPT ![t] = "nil"]
  /\ tpc' = [tpc EXCEPT ![t] = "idle"]
  /\ proxyMu' = 0
  /\ UNCHANGED <<cancelled, portBusy, cst, cown, hsVars, muxVars, extVars>>

\* A thread calls stopProxyService.
StopEnter(t) ==
  /\ tpc[t] = "idle"
  /\ tpc' = [tpc EXCEPT ![t] = "stopLock"]
  /\ tres' = [tres EXCEPT ![t] = "none"]
  /\ UNCHANGED <<proxyMu, globalProxyService, running, listenerOpen, cancelled, nInst, portBusy>>

\* The same, by a caller that is not the backend's main loop.
StopCall(t) ==
  /\ StopEnter(t)
  /\ UNCHANGED <<muxVars, netVars, extVars>>

\* proxyMu.Lock()
StopLock(t) ==
  /\ tpc[t] = "stopLock"
  /\ proxyMu = 0
  /\ proxyMu' = t
  /\ tpc' = [tpc EXCEPT ![t] = "stopCheck"]
  /\ UNCHANGED <<globalProxyService, running, listenerOpen, cancelled, nInst, portBusy, tres, muxVars, netVars, extVars>>

\* if globalProxyService == nil { return }; globalProxyService.running = false
StopCheck(t) ==
  /\ tpc[t] = "stopCheck"
  /\ IF globalProxyService = 0
       THEN /\ tpc' = [tpc EXCEPT ![t] = "idle"]
            /\ proxyMu' = 0
            /\ UNCHANGED running
       ELSE /\ running' = [running EXCEPT ![globalProxyService] = FALSE]
            /\ tpc' = [tpc EXCEPT ![t] = "stopCancel"]
            /\ UNCHANGED proxyMu
  /\ UNCHANGED <<globalProxyService, listenerOpen, cancelled, nInst, portBusy, tres, muxVars, netVars, extVars>>

\* Mutant of StopCancel: cancelling the context also ends the instance's
\* connections.
StopCancelKills(t) ==
  /\ tpc[t] = "stopCancel"
  /\ cancelled' = [cancelled EXCEPT ![globalProxyService] = TRUE]
  /\ cst' = [c \in Conns |-> IF cown[c] = globalProxyService /\ cst[c] # "none"
                               THEN "closed" ELSE cst[c]]
  /\ tpc' = [tpc EXCEPT ![t] = "stopListener"]
  /\ UNCHANGED <<proxyMu, globalProxyService, running, listenerOpen, nInst, portBusy,
                 tres, servePc, cown, hsVars, muxVars, extVars>>

\* Mutant of StopCancel: cancel() is not called, the listener is closed with
\* the context still live.
StopCancelSkipped(t) ==
  /\ tpc[t] = "stopCancel"
  /\ tpc' = [tpc EXCEPT ![t] = "stopListener"]
  /\ UNCHANGED <<proxyMu, globalProxyService, running, listenerOpen, cancelled, nInst,
                 portBusy, tres, muxVars, netVars, extVars>>

\* globalProxyService.cancel()
StopCancel(t) ==
  /\ tpc[t] = "stopCancel"
  /\ cancelled' = [cancelled EXCEPT ![globalProxyService] = TRUE]
  /\ tpc' = [tpc EXCEPT ![t] = "stopListener"]
  /\ UNCHANGED <<proxyMu, globalProxyService, running, listenerOpen, nInst, portBusy, tres, muxVars, netVars, extVars>>

\* Mutant of StopListener: the listener is left open.
StopListenerSkipped(t) ==
  /\ tpc[t] = "stopListener"
  /\ tpc' = [tpc EXCEPT ![t] = "stopNil"]
  /\ UNCHANGED <<proxyMu, globalProxyService, running, listenerOpen, cancelled, nInst,
                 portBusy, tres, muxVars, netVars, extVars>>

\* globalProxyService.listener.Close()
StopListener(t) ==
  /\ tpc[t] = "stopListener"
  /\ listenerOpen' = [listenerOpen EXCEPT ![globalProxyService] = FALSE]
  /\ tpc' = [tpc EXCEPT ![t] = "stopNil"]
  /\ UNCHANGED <<proxyMu, globalProxyService, running, cancelled, nInst, portBusy, tres, muxVars, netVars, extVars>>

\* globalProxyService = nil; the deferred Unlock.
StopNil(t) ==
  /\ tpc[t] = "stopNil"
  /\ globalProxyService' = 0
  /\ tpc' = [tpc EXCEPT ![t] = "idle"]
  /\ proxyMu' = 0
  /\ UNCHANGED <<running, listenerOpen, cancelled, nInst, portBusy, tres, muxVars, netVars, extVars>>

\* Another process binds the port while it is free, or releases it.
PortChange ==
  /\ portBusy \/ \A k \in Insts : ~listenerOpen[k]
  /\ portBusy' = ~portBusy
  /\ UNCHANGED <<proxyMu, globalProxyService, running, listenerOpen, cancelled, nInst, tpc, tres, muxVars, netVars, extVars>>

NextProxy ==
  \/ \E t \in Threads : StartCall(t)
  \/ \E t \in Threads : StartLock(t)
  \/ \E t \in Threads : StartCheck(t)
  \/ \E t \in Threads : StartListen(t)
  \/ \E t \in Threads : StopCall(t)
  \/ \E t \in Threads : StopLock(t)
  \/ \E t \in Threads : StopCheck(t)
  \/ \E t \in Threads : StopCancel(t)
  \/ \E t \in Threads : StopListener(t)
  \/ \E t \in Threads : StopNil(t)
  \/ PortChange

\* The proxy service alone, driven by NumThreads concurrent callers.
SpecProxy == Init /\ [][NextProxy]_vars

(***************************************************************************)
(* The proxy service: serve(), the accept loop of an instance, and the      *)
(* connections it hands to handleConnection goroutines                      *)
(***************************************************************************)
\* serve, lines 104-109: select { case <-ps.ctx.Done(): return; default: }
ServeSelect(k) ==
  /\ servePc[k] = "select"
  /\ servePc' = [servePc EXCEPT ![k] = IF cancelled[k] THEN "exited" ELSE "accept"]
  /\ UNCHANGED <<cst, cown, hsVars, proxyVars, muxVars, extVars>>

\* Mutant of AcceptErrs: Accept() succeeds on a closed listener too.
AcceptErrsNever(k) == {FALSE}

\* Accept() on a closed listener fails; on an open one it can fail too.
AcceptErrs(k) == IF listenerOpen[k] THEN BOOLEAN ELSE {TRUE}

\* Mutant of ServeAccept: handleConnection(conn) is called without go, the
\* loop accepts again only when the connection it handles is closed.
ServeAcceptInline(k) ==
  /\ servePc[k] = "accept"
  /\ \E err \in AcceptErrs(k) :
       IF err
         THEN /\ servePc' = [servePc EXCEPT ![k] = IF cancelled[k] THEN "exited" ELSE "select"]
              /\ UNCHANGED <<cst, cown>>
         ELSE \E c \in Conns :
                /\ \A b \in Conns : cown[b] = k => cst[b] \in {"none", "closed"}
                /\ cst[c] = "none"
                /\ \A b \in Conns : b < c => cst[b] # "none"
                /\ cst' = [cst EXCEPT ![c] = "handling"]
                /\ cown' = [cown EXCEPT ![c] = k]
                /\ servePc' = [servePc EXCEPT ![k] = "select"]
  /\ UNCHANGED <<hsVars, proxyVars, muxVars, extVars>>

\* serve, lines 111-122: conn, err := ps.listener.Accept(); on error return
\* if ps.ctx.Err() != nil, else continue; otherwise go ps.handleConnection(conn).
ServeAccept(k) ==
  /\ servePc[k] = "accept"
  /\ \E err \in AcceptErrs(k) :
       IF err
         THEN /\ servePc' = [servePc EXCEPT ![k] = IF cancelled[k] THEN "exited" ELSE "select"]
              /\ UNCHANGED <<cst, cown>>
         ELSE \E c \in Conns :
                /\ cst[c] = "none"
                /\ \A b \in Conns : b < c => cst[b] # "none"
                /\ cst' = [cst EXCEPT ![c] = "handling"]
                /\ cown' = [cown EXCEPT ![c] = k]
                /\ servePc' = [servePc EXCEPT ![k] = "select"]
  /\ UNCHANGED <<hsVars, proxyVars, muxVars, extVars>>

\* handleConnection up to the relay: detection and handshake either fail (the
\* deferred conn.Close()) or reach relay().
HandleConnection(c) ==
  /\ cst[c] = "handling"
  /\ \E ok \in BOOLEAN : cst' = [cst EXCEPT ![c] = IF ok THEN "relaying" ELSE "closed"]
  /\ UNCHANGED <<servePc, cown, hsVars, proxyVars, muxVars, extVars>>

\* relay: the peers finish, io.Copy returns, the connection is closed.
RelayDone(c) ==
  /\ cst[c] = "relaying"
  /\ cst' = [cst EXCEPT ![c] = "closed"]
  /\ UNCHANGED <<servePc, cown, hsVars, proxyVars, muxVars, extVars>>

NextServe ==
  \/ NextProxy
  \/ \E k \in Insts : ServeSelect(k)
  \/ \E k \in Insts : ServeAccept(k)
  \/ \E c \in Conns : HandleConnection(c)
  \/ \E c \in Conns : RelayDone(c)

\* The proxy service with its accept loops and connections.
SpecServe == Init /\ [][NextServe]_vars

(***************************************************************************)
(* The proxy service: one connection from handleConnection to the relay.    *)
(* Bytes are numbers 0..255; the bufio.Reader is its buffer rbuf and the     *)
(* count cpos of bytes it has taken from the connection.                    *)
(***************************************************************************)
Take(q, n) == SubSeq(q, 1, IF n < Len(q) THEN n ELSE Len(q))
Drop(q, n) == SubSeq(q, n + 1, Len(q))
Fill(n, b) == [i \in 1..n |-> b]

\* "GET", "POST", "PUT", "DELETE", "HEAD", "OPTIONS", "CONNECT" and " "
mGET == <<71, 69, 84>>
mPOST == <<80, 79, 83, 84>>
mPUT == <<80, 85, 84>>
mDELETE == <<68, 69, 76, 69, 84, 69>>
mHEAD == <<72, 69, 65, 68>>
mOPTIONS == <<79, 80, 84, 73, 79, 78, 83>>
mCONNECT == <<67, 79, 78, 78, 69, 67, 84>>
SP == <<32>>

\* proxy.go line 174: httpMethods, each token with its trailing space
httpMethods ==
  <<mGET \o SP, mPOST \o SP, mPUT \o SP, mDELETE \o SP, mHEAD \o SP, mOPTIONS \o SP,
    mCONNECT \o SP>>

\* proxy.go lines 175-184: the loop over httpMethods from index i on; "" when
\* no method matches.
RECURSIVE MatchMethod(_, _)
MatchMethod(firstBytes, i) ==
  IF i > Len(httpMethods) THEN ""
  ELSE LET method == httpMethods[i] IN
       IF Len(firstBytes) >= Len(method) /\ SubSeq(firstBytes, 1, Len(method)) = method
         THEN IF method = mCONNECT \o SP THEN "CONNECT" ELSE "HTTP"
         ELSE MatchMethod(firstBytes, i + 1)

\* Mutant of detectProtocol: CONNECT is not told apart from the other methods.
detectProtocolOneClass(firstBytes) ==
  IF Len(firstBytes) < 1 THEN "SOCKS5"
  ELSE LET m == IF Len(firstBytes) >= 3 THEN MatchMethod(firstBytes, 1) ELSE "" IN
       IF m # "" THEN "HTTP" ELSE "SOCKS5"

\* proxy.go lines 169-192: the classification of the peeked bytes.
detectProtocol(firstBytes) ==
  IF Len(firstBytes) < 1 THEN "SOCKS5"
  ELSE LET m == IF Len(firstBytes) >= 3 THEN MatchMethod(firstBytes, 1) ELSE "" IN
       IF m # "" THEN m
       ELSE IF firstBytes[1] = 5 THEN "SOCKS5"
       ELSE "SOCKS5"

\* HTTP-only service, line 163: httpMethods, the first three bytes of each token
httpMethods3 ==
  <<Take(mGET, 3), Take(mPOST, 3), Take(mPUT, 3), Take(mDELETE, 3), Take(mHEAD, 3),
    Take(mOPTIONS, 3), Take(mCONNECT, 3)>>

\* HTTP-only service, lines 165-174: the loop over httpMethods from index i on.
RECURSIVE MatchMethod3(_, _)
MatchMethod3(first7, i) ==
  IF i > Len(httpMethods3) THEN ""
  ELSE LET m == httpMethods3[i] IN
       IF SubSeq(first7, 1, 3) = m
         THEN IF m = Take(mCONNECT, 3) /\ Len(first7) >= 7 /\ SubSeq(first7, 1, 7) = mCONNECT
                THEN "CONNECT" ELSE "HTTP"
         ELSE MatchMethod3(first7, i + 1)

\* HTTP-only service, lines 162-177: the classification of the peeked bytes.
detectProtocolHttpOnly(first7) ==
  LET m == IF Len(first7) >= 3 THEN MatchMethod3(first7, 1) ELSE "" IN
  IF m # "" THEN m ELSE "UNSUPPORTED"

\* reader.Peek(10) in proxy.go, reader.Peek(7) in the HTTP-only service
PeekLen(v) == IF v = "socks" THEN 10 ELSE 7

\* ---- the bufio.Reader over the connection
Avail == Len(stream) - cpos
Unread == rbuf \o SubSeq(stream, cpos + 1, Len(stream))
CanRead(n) == Len(rbuf) + Avail >= n

\* How many bytes a read of n bytes takes from the connection: none when the
\* buffer holds n bytes, otherwise what is missing or more, up to what is there.
Pulls(n) == IF Len(rbuf) >= n THEN {0} ELSE (n - Len(rbuf))..Avail

\* Mutant of Peek: the bytes returned leave the buffer.
PeekConsuming(n, m) ==
  LET b == rbuf \o SubSeq(stream, cpos + 1, cpos + m) IN
  [data |-> Take(b, n), buf |-> Drop(b, n), pos |-> cpos + m]

\* reader.Peek(n) after taking m bytes from the connection: the bytes returned
\* and the reader afterwards; nothing leaves the buffer.
Peek(n, m) ==
  LET b == rbuf \o SubSeq(stream, cpos + 1, cpos + m) IN
  [data |-> Take(b, n), buf |-> b, pos |-> cpos + m]

\* io.ReadFull(reader, p) with len(p) = n after taking m bytes from the
\* connection: the bytes returned leave the buffer.
ReadFull(n, m) ==
  LET b == rbuf \o SubSeq(stream, cpos + 1, cpos + m) IN
  [data |-> Take(b, n), buf |-> Drop(b, n), pos |-> cpos + m]

\* A read that cannot be satisfied: io.EOF / io.ErrUnexpectedEOF once the
\* client has closed, a timeout when a read deadline is set, else it blocks.
ReadErr == IF endKind = "close" THEN "eof" ELSE IF deadline THEN "timeout" ELSE "block"

\* HTTP-only service, line 158: if err != nil && err != io.EOF { return err };
\* proxy.go, line 165: if err != nil { return err }
PeekErrReturned(v, err) == IF v = "http" THEN err # "eof" ELSE TRUE

Frame(tag, bytes) == [tag |-> tag, bytes |-> bytes]

\* socks5Reply, lines 306-313
socks5Reply(rep) == Frame("socks", <<5, rep, 0, 1, 0, 0, 0, 0, 0, 0>>)

\* handleConnection up to the return of detectProtocol: SetReadDeadline, Peek,
\* the error check and the classification.
DetectProtocol ==
  /\ hpc = "start"
  /\ LET n == PeekLen(variant) IN
     IF CanRead(n)
       THEN \E m \in Pulls(n) :
              LET r == Peek(n, m) IN
              /\ rbuf' = r.buf
              /\ cpos' = r.pos
              /\ protocol' = IF variant = "socks" THEN detectProtocol(r.data)
                                                  ELSE detectProtocolHttpOnly(r.data)
              /\ hpc' = "dispatch"
              /\ deadline' = TRUE
       ELSE LET r == Peek(n, Avail) IN
            /\ rbuf' = r.buf
            /\ cpos' = r.pos
            /\ deadline' = TRUE
            /\ IF PeekErrReturned(variant, IF endKind = "close" THEN "eof" ELSE "timeout")
                 THEN /\ hpc' = "closed"
                      /\ UNCHANGED protocol
                 ELSE /\ protocol' = detectProtocolHttpOnly(r.data)
                      /\ hpc' = "dispatch"
  /\ UNCHANGED <<variant, stream, endKind, hloc, seen, written, dialed, relVars, srvVars,
                 proxyVars, muxVars, extVars>>

\* handleConnection after detection: the deadline is cleared and the switch
\* enters the protocol handler; the HTTP-only service answers what is neither
\* HTTP nor CONNECT with 400 and returns.
Dispatch ==
  /\ hpc = "dispatch"
  /\ deadline' = FALSE
  /\ IF protocol = "HTTP" THEN hpc' = "http" /\ UNCHANGED written
     ELSE IF protocol = "CONNECT" THEN hpc' = "httpConnect" /\ UNCHANGED written
     ELSE IF variant = "socks" THEN hpc' = "authHeader" /\ UNCHANGED written
     ELSE /\ written' = Append(written, Frame("http400", <<>>))
          /\ hpc' = "closed"
  /\ UNCHANGED <<variant, stream, endKind, cpos, rbuf, protocol, hloc, seen, dialed,
                 relVars, srvVars, proxyVars, muxVars, extVars>>

\* socks5Auth, lines 209-217: the version and the number of methods.
Socks5AuthHeader ==
  /\ hpc = "authHeader"
  /\ CanRead(2)
  /\ \E m \in Pulls(2) :
       LET r == ReadFull(2, m) IN
       /\ rbuf' = r.buf
       /\ cpos' = r.pos
       /\ seen' = seen \o r.data
       /\ IF r.data[1] # 5
            THEN hpc' = "closed" /\ UNCHANGED hloc
            ELSE hpc' = "authMethods" /\ hloc' = [hloc EXCEPT !.n = r.data[2]]
  /\ UNCHANGED <<variant, stream, endKind, deadline, protocol, written, dialed, relVars, srvVars,
                 proxyVars, muxVars, extVars>>

\* What socks5Auth writes once the methods are read (line 224).
AuthReply == Frame("socks", <<5, 0>>)

\* Mutant of Socks5AuthMethods: a list without the method 0x00 is refused.
Socks5AuthMethodsChecked ==
  /\ hpc = "authMethods"
  /\ CanRead(hloc.n)
  /\ \E m \in Pulls(hloc.n) :
       LET r == ReadFull(hloc.n, m) IN
       /\ rbuf' = r.buf
       /\ cpos' = r.pos
       /\ seen' = seen \o r.data
       /\ IF \E i \in 1..Len(r.data) : r.data[i] = 0
            THEN written' = Append(written, AuthReply) /\ hpc' = "reqHeader"
            ELSE written' = Append(written, Frame("socks", <<5, 255>>)) /\ hpc' = "closed"
  /\ UNCHANGED <<variant, stream, endKind, deadline, protocol, hloc, dialed, relVars, srvVars,
                 proxyVars, muxVars, extVars>>

\* socks5Auth, lines 218-227: the methods are read and the reply is written.
Socks5AuthMethods ==
  /\ hpc = "authMethods"
  /\ CanRead(hloc.n)
  /\ \E m \in Pulls(hloc.n) :
       LET r == ReadFull(hloc.n, m) IN
       /\ rbuf' = r.buf
       /\ cpos' = r.pos
       /\ seen' = seen \o r.data
  /\ written' = Append(written, AuthReply)
  /\ hpc' = "reqHeader"
  /\ UNCHANGED <<variant, stream, endKind, deadline, protocol, hloc, dialed, relVars, srvVars,
                 proxyVars, muxVars, extVars>>

\* Mutant of AtypNext: an IPv6 request is read on like an IPv4 one.
AtypNextIPv6(atyp) ==
  IF atyp = 1 \/ atyp = 4 THEN "reqIPv4" ELSE IF atyp = 3 THEN "reqDomLen" ELSE "reply8"

\* socks5Connect, lines 250-278: what the address type leads to: the next
\* read, or the reply code of an address type that is not supported.
AtypNext(atyp) ==
  IF atyp = 1 THEN "reqIPv4" ELSE IF atyp = 3 THEN "reqDomLen" ELSE "reply8"

\* Mutant of Socks5ReqHeader: the address type is checked before the command.
Socks5ReqHeaderAtypFirst ==
  /\ hpc = "reqHeader"
  /\ CanRead(4)
  /\ \E m \in Pulls(4) :
       LET r == ReadFull(4, m) IN
       /\ rbuf' = r.buf
       /\ cpos' = r.pos
       /\ seen' = seen \o r.data
       /\ IF r.data[1] # 5
            THEN hpc' = "closed" /\ UNCHANGED <<written, hloc>>
          ELSE IF AtypNext(r.data[4]) = "reply8"
            THEN /\ written' = Append(written, socks5Reply(8))
                 /\ hpc' = "closed"
                 /\ hloc' = [hloc EXCEPT !.atyp = r.data[4]]
          ELSE IF r.data[2] # 1
            THEN /\ written' = Append(written, socks5Reply(7))
                 /\ hpc' = "closed"
                 /\ UNCHANGED hloc
          ELSE /\ hpc' = AtypNext(r.data[4])
               /\ hloc' = [hloc EXCEPT !.atyp = r.data[4]]
               /\ UNCHANGED written
  /\ UNCHANGED <<variant, stream, endKind, deadline, protocol, dialed, relVars, srvVars, proxyVars,
                 muxVars, extVars>>

\* socks5Connect, lines 232-250 and 270-278: the request header.
Socks5ReqHeader ==
  /\ hpc = "reqHeader"
  /\ CanRead(4)
  /\ \E m \in Pulls(4) :
       LET r == ReadFull(4, m) IN
       /\ rbuf' = r.buf
       /\ cpos' = r.pos
       /\ seen' = seen \o r.data
       /\ IF r.data[1] # 5
            THEN hpc' = "closed" /\ UNCHANGED <<written, hloc>>
          ELSE IF r.data[2] # 1
            THEN /\ written' = Append(written, socks5Reply(7))
                 /\ hpc' = "closed"
                 /\ UNCHANGED hloc
          ELSE IF AtypNext(r.data[4]) = "reply8"
            THEN /\ written' = Append(written, socks5Reply(8))
                 /\ hpc' = "closed"
                 /\ hloc' = [hloc EXCEPT !.atyp = r.data[4]]
          ELSE /\ hpc' = AtypNext(r.data[4])
               /\ hloc' = [hloc EXCEPT !.atyp = r.data[4]]
               /\ UNCHANGED written
  /\ UNCHANGED <<variant, stream, endKind, deadline, protocol, dialed, relVars, srvVars, proxyVars,
                 muxVars, extVars>>

\* The decimal text of a number, as %d and net.IP.String print it.
RECURSIVE Decimal(_)
Decimal(n) == IF n < 10 THEN <<48 + n>> ELSE Decimal(n \div 10) \o <<48 + (n % 10)>>

\* line 256: net.IP(addr).String() of a four-byte address, "a.b.c.d".
IPString(addr) ==
  Decimal(addr[1]) \o <<46>> \o Decimal(addr[2]) \o <<46>> \o Decimal(addr[3]) \o <<46>>
    \o Decimal(addr[4])

\* socks5Connect, lines 251-257: the four bytes of an IPv4 address.
Socks5ReqIPv4 ==
  /\ hpc = "reqIPv4"
  /\ CanRead(4)
  /\ \E m \in Pulls(4) :
       LET r == ReadFull(4, m) IN
       /\ rbuf' = r.buf
       /\ cpos' = r.pos
       /\ seen' = seen \o r.data
       /\ hloc' = [hloc EXCEPT !.host = IPString(r.data)]
  /\ hpc' = "reqPort"
  /\ UNCHANGED <<variant, stream, endKind, deadline, protocol, written, dialed, relVars, srvVars,
                 proxyVars, muxVars, extVars>>

\* socks5Connect, lines 259-263: the length byte of a domain name.
Socks5ReqDomLen ==
  /\ hpc = "reqDomLen"
  /\ CanRead(1)
  /\ \E m \in Pulls(1) :
       LET r == ReadFull(1, m) IN
       /\ rbuf' = r.buf
       /\ cpos' = r.pos
       /\ seen' = seen \o r.data
       /\ hloc' = [hloc EXCEPT !.n = r.data[1]]
  /\ hpc' = "reqDomain"
  /\ UNCHANGED <<variant, stream, endKind, deadline, protocol, written, dialed, relVars, srvVars,
                 proxyVars, muxVars, extVars>>

\* socks5Connect, lines 264-269: the domain name.
Socks5ReqDomain ==
  /\ hpc = "reqDomain"
  /\ CanRead(hloc.n)
  /\ \E m \in Pulls(hloc.n) :
       LET r == ReadFull(hloc.n, m) IN
       /\ rbuf' = r.buf
       /\ cpos' = r.pos
       /\ seen' = seen \o r.data
       /\ hloc' = [hloc EXCEPT !.host = r.data]
  /\ hpc' = "reqPort"
  /\ UNCHANGED <<variant, stream, endKind, deadline, protocol, written, dialed, relVars, srvVars,
                 proxyVars, muxVars, extVars>>

\* Mutant of Port: the shift is made in the width of a byte.
PortByteShift(portBytes) == ((portBytes[1] * 256) % 256) + portBytes[2]

\* line 285: port := int(portBytes[0])<<8 + int(portBytes[1])
Port(portBytes) == portBytes[1] * 256 + portBytes[2]

\* What a target sends once it is connected to, and how it ends.
TargetStreams == {<<>>, <<71, 72>>}
TargetEnds == {"close", "stall"}

\* net.DialTimeout: ok tells whether a connection was made; the target reached
\* is any of the targets.
Dial(ok) ==
  IF ok THEN tstream' \in TargetStreams /\ tEnd' \in TargetEnds
        ELSE UNCHANGED tgtVars

\* Mutant of DialReply: a failed dial is answered like a successful one.
DialReplyAlwaysOk(ok) == 0

\* socks5Connect, lines 290-297: the reply code that follows the dial.
DialReply(ok) == IF ok THEN 0 ELSE 5

\* socks5Connect, lines 280-289: the port is read and the target is dialed.
Socks5ReqPort ==
  /\ hpc = "reqPort"
  /\ CanRead(2)
  /\ \E m \in Pulls(2) :
       LET r == ReadFull(2, m) IN
       /\ rbuf' = r.buf
       /\ cpos' = r.pos
       /\ seen' = seen \o r.data
       /\ \E ok \in BOOLEAN :
            /\ dialed' = Append(dialed, [atyp |-> hloc.atyp, host |-> hloc.host,
                                         port |-> Port(r.data), ok |-> ok])
            /\ Dial(ok)
  /\ hpc' = "socksDialed"
  /\ UNCHANGED <<variant, stream, endKind, deadline, protocol, hloc, written, copyVars,
                 srvVars, proxyVars, muxVars, extVars>>

\* Mutant of Socks5DialReply: relay is called before the success reply is written.
Socks5DialReplyLate ==
  /\ hpc = "socksDialed"
  /\ LET ok == dialed[Len(dialed)].ok IN
     /\ written' = IF ok THEN written ELSE Append(written, socks5Reply(DialReply(ok)))
     /\ hpc' = IF ok THEN "relay" ELSE "closed"
  /\ UNCHANGED <<variant, stream, endKind, cpos, rbuf, deadline, protocol, hloc, seen,
                 dialed, relVars, srvVars, proxyVars, muxVars, extVars>>

\* socks5Connect, lines 290-300: a failed dial is answered with 0x05 and the
\* handler returns; a successful one is answered with 0x00 and relay is called.
Socks5DialReply ==
  /\ hpc = "socksDialed"
  /\ LET ok == dialed[Len(dialed)].ok IN
     /\ written' = Append(written, socks5Reply(DialReply(ok)))
     /\ hpc' = IF ok THEN "relay" ELSE "closed"
  /\ UNCHANGED <<variant, stream, endKind, cpos, rbuf, deadline, protocol, hloc, seen,
                 dialed, relVars, srvVars, proxyVars, muxVars, extVars>>

CRLFCRLF == <<13, 10, 13, 10>>

\* http.ReadRequest reads up to the blank line that ends the header: the
\* number of unread bytes up to it, or more than there are when it is missing.
HeaderNeed ==
  LET u == Unread
      ends == {i \in 4..Len(u) : SubSeq(u, i - 3, i) = CRLFCRLF}
  IN IF ends = {} THEN Len(u) + 1
     ELSE CHOOSE i \in ends : \A j \in ends : i <= j

\* ---- http.ReadRequest on the bytes of a request header
\* strings.Cut(q, sep) for a one-byte separator
Cut(q, sep) ==
  LET at == {i \in 1..Len(q) : q[i] = sep} IN
  IF at = {} THEN [before |-> q, after |-> <<>>, found |-> FALSE]
  ELSE LET i == CHOOSE k \in at : \A l \in at : k <= l IN
       [before |-> SubSeq(q, 1, i - 1), after |-> SubSeq(q, i + 1, Len(q)), found |-> TRUE]

\* The first line of the header, without its "\r\n".
RequestLine(hdr) == Cut(hdr, 13).before

\* net/http parseRequestLine: "GET /foo HTTP/1.1" is cut at its first two spaces.
parseRequestLine(line) ==
  LET c1 == Cut(line, 32)
      c2 == Cut(c1.after, 32)
  IN [method |-> c1.before, requestURI |-> c2.before, proto |-> c2.after,
      ok |-> c1.found /\ c2.found]

\* "HTTP/1.1"
HTTP11 ==
  <<72, 84, 84, 80, 47, 49, 46, 49>>

\* net/http validMethod: a non-empty token: visible ASCII without the
\* separators "(),/:;<=>?@[\]{}
Separators == {34, 40, 41, 44, 47, 58, 59, 60, 61, 62, 63, 64, 91, 92, 93, 123, 125}
validMethod(m) ==
  /\ m # <<>>
  /\ \A i \in 1..Len(m) : m[i] \in (33..126) \ Separators

\* http.ReadRequest succeeds: three parts, a valid method, a known version and
\* a request URI that is not empty.
ReadRequestOk(hdr) ==
  LET l == parseRequestLine(RequestLine(hdr)) IN
  l.ok /\ validMethod(l.method) /\ l.proto = HTTP11 /\ l.requestURI # <<>>

\* req.URL.String() of a request URI that is a path: the path is escaped again,
\* "#" becomes "%23" (url.ParseRequestURI takes no fragment).
RECURSIVE URLString(_)
URLString(uri) ==
  IF uri = <<>> THEN <<>>
  ELSE (IF uri[1] = 35 THEN <<37, 50, 51>> ELSE <<uri[1]>>) \o URLString(Drop(uri, 1))

\* req.Host of a CONNECT request: the authority of the request line; no Host
\* header is sent, a request URI that is a path leaves it empty.
ConnectHost(hdr) ==
  LET uri == parseRequestLine(RequestLine(hdr)).requestURI IN
  IF uri[1] = 47 THEN <<>> ELSE uri

\* handleHTTP, lines 347-348: {"status":"ok","method":"%s","url":"%s","protocol":"http"}
JsonMethod ==
  <<123, 34, 115, 116, 97, 116, 117, 115, 34, 58, 34, 111, 107, 34, 44, 34, 109, 101,
    116, 104, 111, 100, 34, 58, 34>>
JsonUrl ==
  <<34, 44, 34, 117, 114, 108, 34, 58, 34>>
JsonProtocol ==
  <<34, 44, 34, 112, 114, 111, 116, 111, 99, 111, 108, 34, 58, 34, 104, 116, 116,
    112, 34, 125>>
Body(method, url) == JsonMethod \o method \o JsonUrl \o url \o JsonProtocol

\* handleHTTP, lines 349-353: status line, Content-Type, Content-Length: %d,
\* the blank line and the body.
ResponseHead ==
  <<72, 84, 84, 80, 47, 49, 46, 49, 32, 50, 48, 48, 32, 79, 75, 13, 10, 67, 111, 110,
    116, 101, 110, 116, 45, 84, 121, 112, 101, 58, 32, 97, 112, 112, 108, 105, 99,
    97, 116, 105, 111, 110, 47, 106, 115, 111, 110, 13, 10, 67, 111, 110, 116, 101,
    110, 116, 45, 76, 101, 110, 103, 116, 104, 58, 32>>
\* Mutant of Response: the length announced is that of the fixed part of the body.
ResponseFixedLength(body) ==
  ResponseHead \o Decimal(Len(Body(<<>>, <<>>))) \o CRLFCRLF \o body

Response(body) == ResponseHead \o Decimal(Len(body)) \o CRLFCRLF \o body

\* handleHTTP: the request is read; one that parses is answered with 200 and
\* the JSON body, one that does not is dropped; the handler returns.
HandleHTTP ==
  /\ hpc = "http"
  /\ CanRead(HeaderNeed)
  /\ \E m \in Pulls(HeaderNeed) :
       LET r == ReadFull(HeaderNeed, m)
           l == parseRequestLine(RequestLine(r.data))
       IN /\ rbuf' = r.buf
          /\ cpos' = r.pos
          /\ seen' = seen \o r.data
          /\ written' = IF ReadRequestOk(r.data)
                          THEN Append(written,
                                 Frame("http200json",
                                       Response(Body(l.method, URLString(l.requestURI)))))
                          ELSE written
  /\ hpc' = "closed"
  /\ UNCHANGED <<variant, stream, endKind, deadline, protocol, hloc, dialed, relVars,
                 srvVars, proxyVars, muxVars, extVars>>

\* handleHTTPConnect, lines 362-370: the request is read and req.Host dialed; a
\* request that does not parse ends the handler.
HandleHTTPConnect ==
  /\ hpc = "httpConnect"
  /\ CanRead(HeaderNeed)
  /\ \E m \in Pulls(HeaderNeed) :
       LET r == ReadFull(HeaderNeed, m) IN
       /\ rbuf' = r.buf
       /\ cpos' = r.pos
       /\ seen' = seen \o r.data
       /\ IF ReadRequestOk(r.data)
            THEN \E ok \in BOOLEAN :
                   /\ dialed' = Append(dialed, [atyp |-> 0, host |-> ConnectHost(r.data),
                                                port |-> 0, ok |-> ok])
                   /\ Dial(ok)
                   /\ hpc' = "httpDialed"
            ELSE /\ hpc' = "closed"
                 /\ UNCHANGED <<dialed, tgtVars>>
  /\ UNCHANGED <<variant, stream, endKind, deadline, protocol, hloc, written, copyVars,
                 srvVars, proxyVars, muxVars, extVars>>

\* "HTTP/1.1 200 Connection established\r\n\r\n"
ConnectionEstablished ==
  <<72, 84, 84, 80, 47, 49, 46, 49, 32, 50, 48, 48, 32, 67, 111, 110, 110, 101, 99,
    116, 105, 111, 110, 32, 101, 115, 116, 97, 98, 108, 105, 115, 104, 101, 100,
    13, 10, 13, 10>>
\* "HTTP/1.1 502 Bad Gateway\r\n\r\n"
BadGateway ==
  <<72, 84, 84, 80, 47, 49, 46, 49, 32, 53, 48, 50, 32, 66, 97, 100, 32, 71, 97, 116,
    101, 119, 97, 121, 13, 10, 13, 10>>

\* Mutant of HTTPConnectReply: a failed dial is not answered.
HTTPConnectReplySilent ==
  /\ hpc = "httpDialed"
  /\ LET ok == dialed[Len(dialed)].ok IN
     /\ written' = IF ok THEN Append(written, Frame("http200", ConnectionEstablished))
                         ELSE written
     /\ hpc' = IF ok THEN "relay" ELSE "closed"
  /\ UNCHANGED <<variant, stream, endKind, cpos, rbuf, deadline, protocol, hloc, seen,
                 dialed, relVars, srvVars, proxyVars, muxVars, extVars>>

\* handleHTTPConnect, lines 371-381: 502 on a failed dial and the handler
\* returns; 200 on a successful one and relay is called.
HTTPConnectReply ==
  /\ hpc = "httpDialed"
  /\ LET ok == dialed[Len(dialed)].ok IN
     /\ written' = Append(written, IF ok THEN Frame("http200", ConnectionEstablished)
                                          ELSE Frame("http502", BadGateway))
     /\ hpc' = IF ok THEN "relay" ELSE "closed"
  /\ UNCHANGED <<variant, stream, endKind, cpos, rbuf, deadline, protocol, hloc, seen,
                 dialed, relVars, srvVars, proxyVars, muxVars, extVars>>

\* The bytes the read of the handler's position asks for.
NeedBytes ==
  CASE hpc = "authHeader" -> 2
    [] hpc = "authMethods" -> hloc.n
    [] hpc = "reqHeader" -> 4
    [] hpc = "reqIPv4" -> 4
    [] hpc = "reqDomLen" -> 1
    [] hpc = "reqDomain" -> hloc.n
    [] hpc = "reqPort" -> 2
    [] hpc \in {"http", "httpConnect"} -> HeaderNeed
    [] OTHER -> 0

\* A read of a protocol handler that the client's bytes do not satisfy: on an
\* error the handler returns and the connection is closed, with no deadline
\* and a silent client the read does not return.
ReadFails ==
  /\ hpc \in {"authHeader", "authMethods", "reqHeader", "reqIPv4", "reqDomLen",
              "reqDomain", "reqPort", "http", "httpConnect"}
  /\ ~CanRead(NeedBytes)
  /\ seen' = seen \o Unread
  /\ rbuf' = <<>>
  /\ cpos' = Len(stream)
  /\ hpc' = IF ReadErr = "block" THEN "blocked" ELSE "closed"
  /\ UNCHANGED <<variant, stream, endKind, deadline, protocol, hloc, written, dialed,
                 relVars, srvVars, proxyVars, muxVars, extVars>>

\* ---- relay(client, target)
\* Bytes the client has sent that neither the bufio.Reader nor io.Copy has taken.
ClientAvail == Len(stream) - cpos - rtaken
TargetAvail == Len(tstream) - tpos
Closed(side) == nclose[side] > 0
CloseOf(side) == [nclose EXCEPT ![side] = IF @ >= 2 THEN 2 ELSE @ + 1]

\* relay, lines 317-332: the channel is made and the two goroutines start;
\* relay then waits at <-done.
RelayStart ==
  /\ hpc = "relay"
  /\ c2t = "none"
  /\ c2t' = "copy"
  /\ t2c' = "copy"
  /\ hpc' = "relayWait"
  /\ UNCHANGED <<variant, stream, endKind, cpos, rbuf, deadline, protocol, hloc, seen,
                 written, dialed, done, nclose, rtaken, toTarget, tpos, tgtVars, srvVars,
                 proxyVars, muxVars, extVars>>

\* line 322, io.Copy(target, client): one Read of the client connection and the
\* Write of what it returned to the target. Read fails once the connection is
\* closed, returns EOF once the client has closed behind its bytes, and waits
\* when the client is silent; a failed Read or Write ends the copy.
CopyClientToTarget ==
  /\ c2t = "copy"
  /\ IF Closed("client")
       THEN c2t' = "close" /\ UNCHANGED <<rtaken, toTarget>>
     ELSE IF ClientAvail > 0
       THEN \E n \in 1..ClientAvail :
              /\ rtaken' = rtaken + n
              /\ IF Closed("target")
                   THEN c2t' = "close" /\ UNCHANGED toTarget
                   ELSE /\ toTarget' = toTarget \o SubSeq(stream, cpos + rtaken + 1,
                                                           cpos + rtaken + n)
                        /\ UNCHANGED c2t
     ELSE /\ endKind = "close"
          /\ c2t' = "close"
          /\ UNCHANGED <<rtaken, toTarget>>
  /\ UNCHANGED <<variant, stream, endKind, cpos, rbuf, deadline, hpc, protocol, hloc, seen,
                 written, dialed, t2c, done, nclose, tpos, tgtVars, srvVars, proxyVars,
                 muxVars, extVars>>

\* line 324: target.Close()
CloseTarget ==
  /\ c2t = "close"
  /\ nclose' = CloseOf("target")
  /\ c2t' = "signal"
  /\ UNCHANGED <<variant, stream, endKind, cpos, rbuf, deadline, hpc, protocol, hloc, seen,
                 written, dialed, t2c, done, rtaken, toTarget, tpos, tgtVars, srvVars,
                 proxyVars, muxVars, extVars>>

\* Mutant of SignalClientToTarget: the channel done has no buffer, the send
\* waits for relay to receive.
SignalClientToTargetUnbuffered ==
  /\ c2t = "signal"
  /\ hpc = "relayWait"
  /\ done = 0
  /\ done' = done + 1
  /\ c2t' = "done"
  /\ UNCHANGED <<variant, stream, endKind, cpos, rbuf, deadline, hpc, protocol, hloc, seen,
                 written, dialed, t2c, nclose, rtaken, toTarget, tpos, tgtVars, srvVars,
                 proxyVars, muxVars, extVars>>

\* line 321, the deferred done <- struct{}{}: the channel holds two values, the
\* send never waits.
SignalClientToTarget ==
  /\ c2t = "signal"
  /\ done < 2
  /\ done' = done + 1
  /\ c2t' = "done"
  /\ UNCHANGED <<variant, stream, endKind, cpos, rbuf, deadline, hpc, protocol, hloc, seen,
                 written, dialed, t2c, nclose, rtaken, toTarget, tpos, tgtVars, srvVars,
                 proxyVars, muxVars, extVars>>

\* line 329, io.Copy(client, target): one Read of the target connection and the
\* Write of what it returned to the client.
CopyTargetToClient ==
  /\ t2c = "copy"
  /\ IF Closed("target")
       THEN t2c' = "close" /\ UNCHANGED <<tpos, written>>
     ELSE IF TargetAvail > 0
       THEN \E n \in 1..TargetAvail :
              /\ tpos' = tpos + n
              /\ IF Closed("client")
                   THEN t2c' = "close" /\ UNCHANGED written
                   ELSE /\ written' = Append(written,
                                        Frame("relay", SubSeq(tstream, tpos + 1, tpos + n)))
                        /\ UNCHANGED t2c
     ELSE /\ tEnd = "close"
          /\ t2c' = "close"
          /\ UNCHANGED <<tpos, written>>
  /\ UNCHANGED <<variant, stream, endKind, cpos, rbuf, deadline, hpc, protocol, hloc, seen,
                 dialed, c2t, done, nclose, rtaken, toTarget, tgtVars, srvVars, proxyVars,
                 muxVars, extVars>>

\* line 331: client.Close()
CloseClient ==
  /\ t2c = "close"
  /\ nclose' = CloseOf("client")
  /\ t2c' = "signal"
  /\ UNCHANGED <<variant, stream, endKind, cpos, rbuf, deadline, hpc, protocol, hloc, seen,
                 written, dialed, c2t, done, rtaken, toTarget, tpos, tgtVars, srvVars,
                 proxyVars, muxVars, extVars>>

\* line 328, the deferred done <- struct{}{}
SignalTargetToClient ==
  /\ t2c = "signal"
  /\ done < 2
  /\ done' = done + 1
  /\ t2c' = "done"
  /\ UNCHANGED <<variant, stream, endKind, cpos, rbuf, deadline, hpc, protocol, hloc, seen,
                 written, dialed, c2t, nclose, rtaken, toTarget, tpos, tgtVars, srvVars,
                 proxyVars, muxVars, extVars>>

\* line 334, <-done: relay returns once a value is in the channel.
RelayReturn ==
  /\ hpc = "relayWait"
  /\ done > 0
  /\ done' = done - 1
  /\ hpc' = "deferTarget"
  /\ UNCHANGED <<variant, stream, endKind, cpos, rbuf, deadline, protocol, hloc, seen,
                 written, dialed, c2t, t2c, nclose, rtaken, toTarget, tpos, tgtVars,
                 srvVars, proxyVars, muxVars, extVars>>

\* The handler returns: defer targetConn.Close() (lines 295 and 376)
DeferTargetClose ==
  /\ hpc = "deferTarget"
  /\ nclose' = CloseOf("target")
  /\ hpc' = "deferConn"
  /\ UNCHANGED <<variant, stream, endKind, cpos, rbuf, deadline, protocol, hloc, seen,
                 written, dialed, c2t, t2c, done, rtaken, toTarget, tpos, tgtVars, srvVars,
                 proxyVars, muxVars, extVars>>

\* handleConnection returns: the deferred conn.Close() (lines 130-133)
DeferConnClose ==
  /\ hpc = "deferConn"
  /\ nclose' = CloseOf("client")
  /\ hpc' = "closed"
  /\ UNCHANGED <<variant, stream, endKind, cpos, rbuf, deadline, protocol, hloc, seen,
                 written, dialed, c2t, t2c, done, rtaken, toTarget, tpos, tgtVars, srvVars,
                 proxyVars, muxVars, extVars>>

\* ---- the clients' byte streams
\* "/ HTTP/1.1\r\n\r\n"
HttpTail == <<47, 32, 72, 84, 84, 80, 47, 49, 46, 49>> \o CRLFCRLF
X == <<88>>

\* Request heads: every method with its space, every method followed by "X",
\* "POSIX ", "CONTROL", "get ", " GET ", and a TLS hello.
Heads ==
  LET ms == {mGET, mPOST, mPUT, mDELETE, mHEAD, mOPTIONS, mCONNECT} IN
  {m \o SP : m \in ms} \cup {m \o X : m \in ms}
    \cup {<<80, 79, 83, 73, 88, 32>>, <<67, 79, 78, 84, 82, 79, 76>>,
          <<103, 101, 116, 32>>, SP \o mGET \o SP, <<22, 3, 1>>}
\* What a client sends behind its request without waiting for the answer.
Payload == <<201, 202>>

\* "CONNECT a.b:80 HTTP/1.1\r\n\r\n" alone and followed by payload,
\* "GET /# HTTP/1.1\r\n\r\n"
ConnectAuthority == mCONNECT \o SP \o <<97, 46, 98, 58, 56, 48>> \o SP \o HTTP11 \o CRLFCRLF
HttpStreams ==
  {h \o HttpTail : h \in Heads}
    \cup {ConnectAuthority, ConnectAuthority \o Payload,
          mGET \o SP \o <<47, 35>> \o SP \o HTTP11 \o CRLFCRLF}

\* A SOCKS greeting: version, number of methods, the methods (all equal to mb).
Greeting(ver, nm, mb) == <<ver, nm>> \o Fill(nm, mb)

\* The address field that belongs to an address type: 10.0.0.1, "a.b" with its
\* length byte, an IPv6 address, nothing for an unknown type.
AddrOf(atyp) ==
  IF atyp = 1 THEN <<10, 0, 0, 1>>
  ELSE IF atyp = 3 THEN <<3, 97, 46, 98>>
  ELSE IF atyp = 4 THEN Fill(16, 1)
  ELSE <<>>

\* A SOCKS request: version, command, reserved, address type, address, port 8080.
Request(ver, cmd, atyp) == <<ver, cmd, 0, atyp>> \o AddrOf(atyp) \o <<31, 144>>

\* The longest domain name a length byte can announce.
MaxDomainLen == 255
\* Port bytes at the ends of a byte's range and next to them.
PortPairs == {<<a, b>> : a \in {0, 1, 255}, b \in {0, 1, 255}}
\* Connect requests behind a one-method greeting: 192.168.0.255 with every port
\* pair, and domain names "", "a" and "aa...a" of the longest length.
DecodeStreams ==
  {Greeting(5, 1, 0) \o <<5, 1, 0, 1, 192, 168, 0, 255>> \o pb : pb \in PortPairs}
    \cup {Greeting(5, 1, 0) \o <<5, 1, 0, 3, n>> \o Fill(n, 97) \o pb :
            n \in {0, 1, MaxDomainLen}, pb \in {<<0, 0>>, <<1, 0>>, <<255, 255>>}}

MaxMethods == 2
SocksStreams ==
  DecodeStreams \cup
  {Greeting(5, nm, mb) \o Request(5, cmd, atyp) :
     nm \in 0..MaxMethods, mb \in {0, 2}, cmd \in {1, 2}, atyp \in {0, 1, 3, 4, 5}}
    \cup {Greeting(5, 255, 0) \o Request(5, 1, atyp) : atyp \in {1, 4}}
    \cup {Greeting(4, 1, 0) \o Request(5, 1, 1), Greeting(5, 1, 0) \o Request(4, 1, 1),
          Greeting(5, 1, 0) \o Request(5, 1, 1) \o Payload}

\* Lengths at which the client stops short.
TruncLens == {0, 1, 2, 3, 4, 6, 7, 8, 9, 10, 11, 12, 13, 14, 16}
Streams ==
  LET full == HttpStreams \cup SocksStreams IN
  full \cup {Take(q, n) : q \in full, n \in TruncLens}

\* handleConnection(conn) starts on a connection of either service, with any
\* of the clients.
InitConn ==
  /\ InitMux("none") /\ InitProxy /\ InitSrv /\ InitBackend
  /\ \E v \in {"socks", "http"}, q \in Streams, e \in {"close", "stall"} :
       InitHandler(v, q, e, "start")

NextConn ==
  \/ DetectProtocol
  \/ Dispatch
  \/ Socks5AuthHeader
  \/ Socks5AuthMethods
  \/ Socks5ReqHeader
  \/ Socks5ReqIPv4
  \/ Socks5ReqDomLen
  \/ Socks5ReqDomain
  \/ Socks5ReqPort
  \/ Socks5DialReply
  \/ HandleHTTP
  \/ HandleHTTPConnect
  \/ HTTPConnectReply
  \/ ReadFails
  \/ RelayStart
  \/ CopyClientToTarget
  \/ CloseTarget
  \/ SignalClientToTarget
  \/ CopyTargetToClient
  \/ CloseClient
  \/ SignalTargetToClient
  \/ RelayReturn
  \/ DeferTargetClose
  \/ DeferConnClose

\* One connection, from handleConnection to its close.
SpecConn == InitConn /\ [][NextConn]_vars

\* The goroutines of a relay and the handler that called it keep running while
\* they can: a goroutine that is not blocked is scheduled.
ClientToTargetTask == CopyClientToTarget \/ CloseTarget \/ SignalClientToTarget
TargetToClientTask == CopyTargetToClient \/ CloseClient \/ SignalTargetToClient
HandlerAfterRelay == RelayReturn \/ DeferTargetClose \/ DeferConnClose
SpecConnFair ==
  /\ SpecConn
  /\ WF_vars(ClientToTargetTask)
  /\ WF_vars(TargetToClientTask)
  /\ WF_vars(HandlerAfterRelay)

(***************************************************************************)
(* runBackendOnce: the main loop, which alone calls updateTUN and CloseTUNs *)
(* on the multiplexer and starts and stops the proxy service (as thread 1), *)
(* and the settings callback, which hands it configurations                 *)
(***************************************************************************)
MaxSvc == 2
MaxCfg == 2
Svcs == 1..MaxSvc

\* The pairs the settings callback is called with: rcfg nil (0), without
\* local addresses (1) or with local addresses (2 and more); dcfg nil or not.
CfgPairs == [r : 0..MaxCfg, d : 0..1]
HasAddrs(r) == r >= 2

\* isConfigNonNilAndDifferent
isConfigNonNilAndDifferent(c) ==
  IF c.r = lastCfg /\ c.d = lastDNSCfg THEN FALSE ELSE c.r # 0

\* What the backend's actions leave alone besides the multiplexer and the
\* proxy service.
bkRest == <<netVars, cerrVars, evVars, ioVars>>

\* Mutant of UpdateEntry: updateTUN goes to the builder without CloseTUNs.
UpdateEntrySkipsClose == "build"

\* updateTUN, lines 141-143: it begins with b.CloseTUNs().
UpdateEntry == "closeTUNs"

\* Mutant of UnchangedNext: the configs case breaks without a reply.
UnchangedNextSelect == "select"

\* configs case, lines 256-259: with no VPN service or an unchanged
\* configuration it sends configErrs <- nil.
UnchangedNext == "reply"

\* The settings callback is called: with a nil rcfg it returns nil, otherwise
\* it sends the pair on configs.
SettingsCall(c) ==
  /\ cbPc = "idle"
  /\ cbCfg' = c
  /\ IF c.r = 0
       THEN /\ cbRes' = "nil"
            /\ UNCHANGED cbPc
       ELSE /\ cbPc' = "sending"
            /\ cbRes' = "none"
  /\ UNCHANGED <<bpc, bret, bctx, bres, bsvc, started, service, cfg, lastCfg, lastDNSCfg,
                 muxVars, proxyVars, bkRest>>

\* case s := <-stateCh
BackendState(s) ==
  /\ bpc = "select"
  /\ started' = s
  /\ IF s /\ service # 0 /\ isConfigNonNilAndDifferent(cfg)
       THEN /\ bpc' = UpdateEntry
            /\ bret' = "state"
            /\ bctx' = "update"
       ELSE UNCHANGED <<bpc, bret, bctx>>
  /\ UNCHANGED <<bres, bsvc, service, cfg, lastCfg, lastDNSCfg, cbPc, cbCfg, cbRes,
                 muxVars, proxyVars, bkRest>>

\* case c := <-configs
BackendConfigs ==
  /\ bpc = "select"
  /\ cbPc = "sending"
  /\ cbPc' = "waiting"
  /\ cfg' = cbCfg
  /\ IF service = 0 \/ ~isConfigNonNilAndDifferent(cbCfg)
       THEN /\ bpc' = UnchangedNext
            /\ bres' = "nil"
            /\ UNCHANGED <<bret, bctx>>
       ELSE /\ bpc' = UpdateEntry
            /\ bret' = "configs"
            /\ bctx' = "update"
            /\ UNCHANGED bres
  /\ UNCHANGED <<bsvc, started, service, lastCfg, lastDNSCfg, cbCfg, cbRes,
                 muxVars, proxyVars, bkRest>>

\* case s := <-onVPNRequested
BackendVPNRequested(s) ==
  /\ bpc = "select"
  /\ service # s
  /\ service' = s
  /\ IF started /\ isConfigNonNilAndDifferent(cfg)
       THEN /\ bpc' = UpdateEntry
            /\ bret' = "vpn"
            /\ bctx' = "update"
       ELSE UNCHANGED <<bpc, bret, bctx>>
  /\ UNCHANGED <<bres, bsvc, started, cfg, lastCfg, lastDNSCfg, cbPc, cbCfg, cbRes,
                 muxVars, proxyVars, bkRest>>

\* case s := <-onDisconnect: it begins with b.CloseTUNs()
BackendDisconnect(s) ==
  /\ bpc = "select"
  /\ bsvc' = s
  /\ bpc' = "closeTUNs"
  /\ bctx' = "disconnect"
  /\ UNCHANGED <<bret, bres, started, service, cfg, lastCfg, lastDNSCfg, cbPc, cbCfg, cbRes,
                 muxVars, proxyVars, bkRest>>

\* CloseTUNs: b.lastCfg = nil; b.devices.Shutdown(), up to its send on
\* d.shutdowns.
BackendCloseTUNs ==
  /\ bpc = "closeTUNs"
  /\ lastCfg' = 0
  /\ CallSend("shutdown")
  /\ bpc' = "shutdownWait"
  /\ UNCHANGED <<bret, bctx, bres, bsvc, started, service, cfg, lastDNSCfg, cbPc, cbCfg,
                 cbRes, proxyVars, bkRest>>

\* Shutdown has returned: updateTUN goes on; closeVpnService disconnects and
\* forgets the service; the onDisconnect case forgets the service it was
\* called for and goes on to stopProxyService.
BackendShutdownReturned ==
  /\ bpc = "shutdownWait"
  /\ ctlPc = "idle"
  /\ bpc' = CASE bctx = "update" -> "build"
              [] bctx = "fail" -> "select"
              [] OTHER -> "stop"
  /\ service' = CASE bctx = "update" -> service
                  [] bctx = "fail" -> 0
                  [] OTHER -> IF service # 0 /\ service = bsvc THEN 0 ELSE service
  /\ UNCHANGED <<bret, bctx, bres, bsvc, started, cfg, lastCfg, lastDNSCfg, cbPc, cbCfg,
                 cbRes, muxVars, proxyVars, bkRest>>

\* updateTUN returns res to the case that called it: the configs case sends
\* it on configErrs, the other two call closeVpnService on an error, which
\* begins with b.lastCfg = nil; b.CloseTUNs().
UpdateReturn(res) ==
  /\ bres' = res
  /\ IF bret = "configs"
       THEN bpc' = "reply" /\ UNCHANGED bctx
       ELSE IF res = "err"
              THEN bpc' = "closeTUNs" /\ bctx' = "fail"
              ELSE bpc' = "select" /\ UNCHANGED bctx

\* updateTUN, lines 146-248: without local addresses it returns nil; any step
\* of the builder, establish, the fd or the device creation can fail.
BackendBuild ==
  /\ bpc = "build"
  /\ IF ~HasAddrs(cfg.r)
       THEN UpdateReturn("nil")
       ELSE \E ok \in BOOLEAN :
              IF ok THEN bpc' = "add" /\ UNCHANGED <<bres, bctx>>
                    ELSE UpdateReturn("err")
  /\ UNCHANGED <<bret, bsvc, started, service, cfg, lastCfg, lastDNSCfg, cbPc, cbCfg, cbRes,
                 muxVars, proxyVars, bkRest>>

\* updateTUN, line 252: b.devices.add(tunDev), up to its send on d.devices.
BackendAdd ==
  /\ bpc = "add"
  /\ CallSend("add")
  /\ bpc' = "addWait"
  /\ UNCHANGED <<bret, bctx, bres, bsvc, started, service, cfg, lastCfg, lastDNSCfg, cbPc,
                 cbCfg, cbRes, proxyVars, bkRest>>

\* add has returned; lines 256-257: b.lastCfg = rcfg; b.lastDNSCfg = dcfg
BackendAdded ==
  /\ bpc = "addWait"
  /\ ctlPc = "idle"
  /\ lastCfg' = cfg.r
  /\ lastDNSCfg' = cfg.d
  /\ bpc' = "start"
  /\ UNCHANGED <<bret, bctx, bres, bsvc, started, service, cfg, cbPc, cbCfg, cbRes,
                 muxVars, proxyVars, bkRest>>

\* updateTUN, line 260: startProxyService("")
BackendStartProxy ==
  /\ bpc = "start"
  /\ StartEnter(1)
  /\ bpc' = "startWait"
  /\ UNCHANGED <<bret, bctx, bres, bsvc, started, service, cfg, lastCfg, lastDNSCfg, cbPc,
                 cbCfg, cbRes, muxVars, bkRest>>

\* startProxyService has returned; line 262: return nil
BackendStarted ==
  /\ bpc = "startWait"
  /\ tpc[1] = "idle"
  /\ UpdateReturn("nil")
  /\ UNCHANGED <<bret, bsvc, started, service, cfg, lastCfg, lastDNSCfg, cbPc, cbCfg, cbRes,
                 muxVars, proxyVars, bkRest>>

\* configErrs <- nil, or configErrs <- b.updateTUN(...): the rendezvous with
\* the callback's <-configErrs, which returns the value.
BackendReply ==
  /\ bpc = "reply"
  /\ cbPc = "waiting"
  /\ cbPc' = "idle"
  /\ cbRes' = bres
  /\ bpc' = "select"
  /\ UNCHANGED <<bret, bctx, bres, bsvc, started, service, cfg, lastCfg, lastDNSCfg, cbCfg,
                 muxVars, proxyVars, bkRest>>

\* onDisconnect case, line 301: stopProxyService()
BackendStopProxy ==
  /\ bpc = "stop"
  /\ StopEnter(1)
  /\ bpc' = "stopWait"
  /\ UNCHANGED <<bret, bctx, bres, bsvc, started, service, cfg, lastCfg, lastDNSCfg, cbPc,
                 cbCfg, cbRes, muxVars, bkRest>>

\* stopProxyService has returned
BackendStopped ==
  /\ bpc = "stopWait"
  /\ tpc[1] = "idle"
  /\ bpc' = "select"
  /\ UNCHANGED <<bret, bctx, bres, bsvc, started, service, cfg, lastCfg, lastDNSCfg, cbPc,
                 cbCfg, cbRes, muxVars, proxyVars, bkRest>>

NextBackend ==
  \/ \E c \in CfgPairs : SettingsCall(c)
  \/ \E s \in BOOLEAN : BackendState(s)
  \/ BackendConfigs
  \/ \E s \in Svcs : BackendVPNRequested(s)
  \/ \E s \in Svcs : BackendDisconnect(s)
  \/ BackendCloseTUNs
  \/ BackendShutdownReturned
  \/ BackendBuild
  \/ BackendAdd
  \/ BackendAdded
  \/ BackendStartProxy
  \/ BackendStarted
  \/ BackendReply
  \/ BackendStopProxy
  \/ BackendStopped
  \/ \E i \in Devs : ReadFromServe(i)
  \/ \E i \in Devs : RunDeviceWrite(i)
  \/ \E i \in Devs : RunDeviceReturn(i)
  \/ RunShutdown
  \/ RunShutdownCloseDone
  \/ RunShutdownReadDone
  \/ RunAdd
  \/ Read
  \/ Write
  \/ \E t \in Threads : StartLock(t)
  \/ \E t \in Threads : StartCheck(t)
  \/ \E t \in Threads : StartListen(t)
  \/ \E t \in Threads : StopLock(t)
  \/ \E t \in Threads : StopCheck(t)
  \/ \E t \in Threads : StopCancel(t)
  \/ \E t \in Threads : StopListener(t)
  \/ \E t \in Threads : StopNil(t)

\* The multiplexer and the proxy service as the backend's main loop drives
\* them, with the engine calling Read and Write and the settings callback.
\* The owner's readDone and runDone cases are not among the steps: the backend
\* closes a device through Shutdown only, whose loop takes closeDone and
\* readDone itself, so neither case is ever ready at the owner's select.
SpecBackend == Init /\ [][NextBackend]_vars

(***************************************************************************)
(* multiTUN: the claims                                                     *)
(***************************************************************************)

ShutdownPanic == "run, shutdowns case: close of closed channel"
ClosePanic == "Close: close of closed channel"

\* C1: a Write called once n add() calls have returned is served by device n
\* (the newest) or a later one, never by an older device.
C1_WriteServedByNewest ==
  [][\A i \in Devs : RunDeviceWrite(i) => i >= wtrAdds]_vars

\* C2: Reads are only ever served by the oldest device of the list; the Read
\* that observes the failure of a device told to stop returns a nil error; a
\* device whose read path has completed serves no Read again and sits at most
\* at the head of the list, from where the owner removes it.
C2_ReadRouting ==
  /\ \A i \in Devs : rd[i] = "idle" => (devices # <<>> /\ Head(devices) = i)
  /\ lastRead.stop => ~lastRead.err
  /\ \A i \in Devs : \A k \in 2..Len(devices) :
       rd[i] = "exited" => devices[k] # i

\* C2 witness: d1 has been drained after add(d1), add(d2): its last Read
\* returned the stop reply, it left the list, and d2 now serves the reads.
C2_Witness ==
  /\ lastRead.got /\ lastRead.stop
  /\ rd[1] = "exited"
  /\ devices = <<2>>
  /\ rd[2] = "idle"

\* C3: Shutdown never faults and never waits for the write-side close of a
\* device that has no write goroutine to send it.
C3_ShutdownCompletes ==
  /\ panicked # ShutdownPanic
  /\ opc = "shutCloseDone" => wr[devices[oidx]] \in {"idle", "closing"}

\* C4: once a Shutdown has returned and one device n has been added since, n
\* is the whole list, both of its goroutines run (so n is the read source and
\* the write target), the owner waits on n's completion channels, and nothing
\* is left of the retired devices: no goroutine, no pending completion signal.
C4_ReusableAfterShutdown ==
  (shutAt >= 0 /\ nAdded = shutAt + 1 /\ opc = "select" /\ ~dclose)
    => /\ devices = <<nAdded>>
       /\ readDone = nAdded /\ runDone = nAdded
       /\ rd[nAdded] = "idle" /\ wr[nAdded] = "idle"
       /\ \A i \in 1..shutAt :
            /\ rd[i] \in {"none", "exited"}
            /\ wr[i] \in {"none", "exited"}
            /\ rdDoneBuf[i] = 0

\* C4 witness: add(d1), add(d2), d1 drained, Shutdown, add(d3), with a Read
\* and a Write pending that only d3 can serve.
C4_Witness ==
  /\ shutAt = 2 /\ nAdded = 3 /\ opc = "select" /\ ~dclose
  /\ devices = <<3>>
  /\ rdrPc = "sending" /\ wtrPc = "sending"

\* C5: Close never waits for the close of a device that has no write goroutine
\* left to send it.
C5_CloseCompletes ==
  opc = "closeWait" => wr[devices[oidx]] \in {"idle", "closing"}

\* C6: once Close has returned, a call does not fault and does not start to
\* wait on a channel that no goroutine receives from.
C6_FailsAfterClose ==
  [][closer = "returned" =>
       /\ panicked' # ClosePanic
       /\ ctlPc = "idle" => ctlPc' = "idle"
       /\ (rdrPc = "idle" /\ \A i \in Devs : rd[i] # "idle") => rdrPc' = "idle"
       /\ (wtrPc = "idle" /\ \A i \in Devs : wr[i] # "idle") => wtrPc' = "idle"]_vars

\* C7 as claimed: the device serving reads and the device serving writes are
\* always among the last two devices added.
C7_ActiveAmongLastTwo ==
  \A i \in Devs : (rd[i] = "idle" \/ wr[i] = "idle") => i >= nAdded - 1

\* C7 as amended: at most one device serves reads, the oldest of the list,
\* and, as long as Close has not been called, at most one device serves
\* writes, the newest device added unless it has been told to stop: at most
\* two devices are active at once, and they need not be the last two added.
C7_AtMostTwoActive ==
  /\ Cardinality({i \in Devs : rd[i] = "idle"}) <= 1
  /\ \A i \in Devs : rd[i] = "idle" => (devices # <<>> /\ i = Head(devices))
  /\ ~dclose =>
       /\ Cardinality({i \in Devs : wr[i] = "idle"}) <= 1
       /\ Cardinality({i \in Devs : rd[i] = "idle" \/ wr[i] = "idle"}) <= 2
       /\ \A i \in Devs : (wr[i] = "idle" /\ ~devClose[i]) => i = nAdded

\* C7 witness: after three adds d1 still serves the reads while d3 serves the
\* writes.
C7_Witness ==
  /\ ~dclose
  /\ nAdded = 3
  /\ rd[1] = "idle"
  /\ wr[3] = "idle"

\* C9: when Close returns while a Read is pending on an empty multiplexer, the
\* Read is not left waiting on d.reads with no goroutine to receive from it.
C9_BlockedReadReleased ==
  [][(rdrPc = "sending" /\ devices = <<>> /\ closer = "waiting" /\ closer' = "returned")
       => ~(rdrPc' = "sending" /\ opc' = "exited" /\ \A i \in Devs : rd'[i] # "idle")]_vars

\* What the newest device answers, or the defaults of an empty multiplexer.
ExpectedMtu ==
  IF devices = <<>>
    THEN {[kind |-> "mtu", mtu |-> defaultMTU, name |-> "", err |-> FALSE]}
    ELSE {[kind |-> "mtu", mtu |-> DevMTU(nAdded), name |-> "", err |-> FALSE],
          [kind |-> "mtu", mtu |-> 0, name |-> "", err |-> TRUE]}
ExpectedName ==
  IF devices = <<>>
    THEN {[kind |-> "name", mtu |-> 0, name |-> "", err |-> FALSE]}
    ELSE {[kind |-> "name", mtu |-> 0, name |-> DevName(nAdded), err |-> FALSE],
          [kind |-> "name", mtu |-> 0, name |-> "", err |-> TRUE]}

\* C8: MTU() and Name() reply with what the last-added device answers whenever
\* the list is not empty, and with 1280, nil and "", nil when it is empty.
C8_InfoFromNewest ==
  [][/\ RunMTU => ctlReply' \in ExpectedMtu
     /\ RunName => ctlReply' \in ExpectedName]_vars

\* C8 witness: during a hand-over (d2 added, its write goroutine not started)
\* MTU() has answered with d2's MTU.
C8_Witness ==
  /\ devices = <<1, 2>>
  /\ wr[2] = "none"
  /\ ctlReply = [kind |-> "mtu", mtu |-> DevMTU(2), name |-> "", err |-> FALSE]

(***************************************************************************)
(* The proxy service: the claims                                            *)
(***************************************************************************)
OpenInsts == {k \in Insts : listenerOpen[k]}
InStop(t) == tpc[t] \in {"stopCancel", "stopListener", "stopNil"}

C11_StopEffect ==
  [][\A t \in Threads :
       /\ (tpc[t] = "stopNil" /\ tpc'[t] = "idle")
            => /\ globalProxyService # 0
               /\ cancelled'[globalProxyService]
               /\ ~listenerOpen'[globalProxyService]
               /\ ~running'[globalProxyService]
               /\ globalProxyService' = 0
               /\ proxyMu' = 0
       /\ (tpc[t] = "stopCheck" /\ tpc'[t] # "stopCheck" /\ globalProxyService # 0)
            => tpc'[t] = "stopCancel"
       /\ (tpc[t] = "stopCheck" /\ tpc'[t] # "stopCheck" /\ globalProxyService = 0)
            => /\ tpc'[t] = "idle"
               /\ proxyMu' = 0
               /\ UNCHANGED <<globalProxyService, running, listenerOpen, cancelled,
                              nInst, portBusy, servePc, cst, cown>>
    ]_vars

\* C11 witness: instance 1 has been stopped, and a second stop call holds the
\* lock at its nil check.
C11_Witness ==
  /\ nInst = 1
  /\ globalProxyService = 0
  /\ cancelled[1] /\ ~listenerOpen[1] /\ ~running[1]
  /\ tpc[1] = "stopCheck"
  /\ proxyMu = 1
  /\ tpc[2] = "idle"

\* The stopProxyService call that took instance k down has returned.
Stopped(k) == k <= nInst /\ globalProxyService # k

\* C12: a start that follows a stop installs an instance that was never used
\* before, with an open listener, a context that is not cancelled and its own
\* serve() goroutine, while no older instance holds a listener; only the
\* instance that is still installed accepts connections, and the serve() of a
\* stopped instance does nothing but exit.
C12_FreshInstance ==
  [][/\ nInst' # nInst
          => /\ nInst' = nInst + 1
             /\ globalProxyService' = nInst'
             /\ listenerOpen'[nInst'] /\ ~cancelled'[nInst'] /\ running'[nInst']
             /\ servePc[nInst'] = "none" /\ servePc'[nInst'] = "select"
             /\ \A j \in 1..nInst : ~listenerOpen'[j] /\ cancelled'[j] /\ Stopped(j)
     /\ \A c \in Conns : cown'[c] # cown[c]
          => /\ cown'[c] = globalProxyService
             /\ ~Stopped(cown'[c])
             /\ ~cancelled[cown'[c]] \/ \E t \in Threads : InStop(t)
     /\ \A k \in Insts : (Stopped(k) /\ servePc'[k] # servePc[k])
          => servePc'[k] = "exited"
    ]_vars

\* C12 witness: instance 1 accepted a connection and was stopped, its serve()
\* has exited; instance 2 was started afterwards and has accepted the next
\* connection.
C12_Witness ==
  /\ nInst = 2
  /\ globalProxyService = 2
  /\ servePc[1] = "exited"
  /\ cown = <<1, 2>>
  /\ listenerOpen = <<FALSE, TRUE, FALSE>>

\* C13: a startProxyService call that reaches net.Listen while another
\* process holds the port returns an error and changes nothing: no instance
\* is installed, globalProxyService stays nil and no serve() is started; a
\* call that reaches it while the port is free installs an instance and
\* returns nil, whatever failed before.
C13_BindFailure ==
  [][\A t \in Threads : (tpc[t] = "startListen" /\ tpc'[t] # "startListen")
       => /\ tpc'[t] = "idle" /\ proxyMu' = 0
          /\ globalProxyService = 0 \/ ~running[globalProxyService]
          /\ portBusy
               => /\ tres'[t] = "err"
                  /\ globalProxyService = 0
                  /\ UNCHANGED <<globalProxyService, running, listenerOpen, cancelled,
                                 nInst, servePc, cst, cown>>
          /\ ~portBusy
               => /\ tres'[t] = "nil"
                  /\ nInst' = nInst + 1
                  /\ globalProxyService' = nInst'
                  /\ listenerOpen'[nInst'] /\ running'[nInst']
                  /\ servePc'[nInst'] = "select"
    ]_vars

\* C13 witness: the start of thread 1 failed on the busy port; the later start
\* of thread 2 found the port free and installed instance 1, the first.
C13_Witness ==
  /\ tres = <<"err", "nil">>
  /\ tpc = <<"idle", "idle">>
  /\ nInst = 1
  /\ globalProxyService = 1
  /\ listenerOpen[1] /\ running[1]
  /\ servePc[1] = "accept"
  /\ ~portBusy

StopPcs == {"stopLock", "stopCheck", "stopCancel", "stopListener", "stopNil"}

StartsWith(q, t) == Len(q) >= Len(t) /\ SubSeq(q, 1, Len(t)) = t
OtherMethods == {mGET, mPOST, mPUT, mDELETE, mHEAD, mOPTIONS}

\* C15: in proxy.go a detection that succeeds classifies the client's bytes
\* as CONNECT when they start with "CONNECT ", as HTTP when they start with
\* GET, POST, PUT, DELETE, HEAD or OPTIONS and a space, and as SOCKS5 in every
\* other case, with a leading 0x05 or without, a method token that is not
\* followed by a space included.
C15_DetectSocksVariant ==
  (variant = "socks" /\ protocol # "")
    => /\ Len(stream) >= 10
       /\ protocol = IF StartsWith(stream, mCONNECT \o SP) THEN "CONNECT"
                     ELSE IF \E m \in OtherMethods : StartsWith(stream, m \o SP) THEN "HTTP"
                     ELSE "SOCKS5"

\* C15 witness: "GETX/ HTTP/1.1..." has been classified SOCKS5 and handed to
\* the SOCKS5 handler.
C15_Witness ==
  /\ variant = "socks"
  /\ StartsWith(stream, mGET \o X)
  /\ protocol = "SOCKS5"
  /\ hpc = "authHeader"

\* C16: in the HTTP-only service a detection on a full prefix of seven bytes
\* classifies the client's bytes as CONNECT only when they start with
\* "CONNECT ", as HTTP only when they start with another method and a space,
\* and as UNSUPPORTED otherwise ("POSIX ", "CONTROL", "GETX"); what is
\* UNSUPPORTED is answered with 400 and closed, undialed.
C16_DetectHttpOnly ==
  (variant = "http" /\ protocol # "" /\ Len(stream) >= 7)
    => /\ protocol = IF StartsWith(stream, mCONNECT \o SP) THEN "CONNECT"
                     ELSE IF \E m \in OtherMethods : StartsWith(stream, m \o SP) THEN "HTTP"
                     ELSE "UNSUPPORTED"
       /\ (protocol = "UNSUPPORTED" /\ hpc # "dispatch")
            => /\ hpc = "closed"
               /\ written = <<Frame("http400", <<>>)>>
               /\ dialed = <<>>

\* C17: when the client closes or goes silent before the bytes that detection
\* peeks at have arrived, handleConnection ends with the connection closed and
\* nothing else done: no classification, no byte written, no handler read, no
\* dial.
C17_ShortPeekFails ==
  (Len(stream) < PeekLen(variant) /\ hpc # "start")
    => /\ hpc = "closed"
       /\ protocol = ""
       /\ written = <<>>
       /\ seen = <<>>
       /\ dialed = <<>>

\* C18: detection consumes nothing and the handler reads the client's bytes
\* from the first one on, each once and in order: when the handler is entered
\* nothing has been read and the reader holds the start of the stream; at any
\* time what the handler has read is a prefix of the stream and the reader's
\* buffer holds the bytes that follow it.
C18_DetectionConsumesNothing ==
  /\ seen = Take(stream, Len(seen))
  /\ Len(seen) + Len(rbuf) = cpos
  /\ rbuf = SubSeq(stream, Len(seen) + 1, cpos)
  /\ hpc \in {"start", "dispatch", "authHeader", "http", "httpConnect"} => seen = <<>>

\* C18 witness: a SOCKS5 handshake has reached the relay, the handler having
\* read the whole of the greeting and the request behind it.
C18_Witness ==
  /\ variant = "socks"
  /\ protocol = "SOCKS5"
  /\ hpc = "relay"
  /\ Len(stream) >= 13
  /\ seen = stream

\* The greeting is complete: version 5 and as many methods as announced.
GreetingOk == Len(stream) >= 2 /\ stream[1] = 5 /\ Len(stream) >= 2 + stream[2]

\* C19: once socks5Auth is over, a complete greeting of version 5 has been
\* answered with {0x05, 0x00}, written once and first, whatever the number and
\* the values of the methods; for any other greeting nothing is ever written
\* and the handler goes no further than socks5Auth.
C19_AuthReply ==
  (variant = "socks" /\ protocol = "SOCKS5" /\ hpc # "dispatch")
    => /\ (GreetingOk /\ hpc \notin {"authHeader", "authMethods"})
            => /\ written # <<>>
               /\ written[1] = Frame("socks", <<5, 0>>)
               /\ \A i \in 2..Len(written) : written[i].bytes # <<5, 0>>
       /\ hpc \in {"authHeader", "authMethods"} => written = <<>>
       /\ ~GreetingOk
            => /\ written = <<>>
               /\ hpc \in {"authHeader", "authMethods", "closed", "blocked"}

\* C19 witness: a greeting with 255 methods has been answered.
C19_Witness ==
  /\ variant = "socks"
  /\ GreetingOk
  /\ stream[2] = 255
  /\ hpc = "reqHeader"
  /\ written = <<Frame("socks", <<5, 0>>)>>

\* Where the request starts in the stream, and its address type.
ReqOff == 2 + stream[2]
ReqUnsupportedAtyp ==
  /\ GreetingOk
  /\ Len(stream) >= ReqOff + 4
  /\ stream[ReqOff + 1] = 5
  /\ stream[ReqOff + 2] = 1
  /\ stream[ReqOff + 4] \notin {1, 3}

\* C20: a CONNECT request of version 5 whose address type is neither 0x01 nor
\* 0x03 is never dialed and never relayed; when its handler is over, the reply
\* written behind the auth reply is the one frame with REP 0x08.
C20_UnsupportedAtyp ==
  (variant = "socks" /\ protocol = "SOCKS5" /\ ReqUnsupportedAtyp)
    => /\ dialed = <<>>
       /\ hpc \in {"dispatch", "authHeader", "authMethods", "reqHeader", "closed"}
       /\ hpc = "closed"
            => /\ Len(written) = 2
               /\ written[2].bytes[1] = 5
               /\ written[2].bytes[2] = 8

\* C20 witness: an IPv6 request has been answered with REP 0x08 and closed.
C20_Witness ==
  /\ variant = "socks"
  /\ ReqUnsupportedAtyp
  /\ stream[ReqOff + 4] = 4
  /\ hpc = "closed"
  /\ written = <<Frame("socks", <<5, 0>>), socks5Reply(8)>>

\* C21: a SOCKS5 request whose target could not be dialed is answered with one
\* reply frame, of REP 0x05, written behind the auth reply; no success reply is
\* written, relay is never entered and the connection ends closed.
C21_DialFailure ==
  (variant = "socks" /\ protocol = "SOCKS5" /\ dialed # <<>> /\ ~dialed[1].ok)
    => /\ Len(dialed) = 1
       /\ hpc \in {"socksDialed", "closed"}
       /\ hpc = "socksDialed" => written = <<AuthReply>>
       /\ hpc = "closed" => written = <<AuthReply, socks5Reply(5)>>
       /\ socks5Reply(5).bytes[2] = 5

\* C21 witness: the dial of 10.0.0.1:8080 has failed and has been answered.
C21_Witness ==
  /\ variant = "socks"
  /\ protocol = "SOCKS5"
  /\ dialed = <<[atyp |-> 1, host |-> <<49, 48, 46, 48, 46, 48, 46, 49>>, port |-> 8080, ok |-> FALSE]>>
  /\ hpc = "closed"
  /\ written = <<AuthReply, socks5Reply(5)>>

\* The four bytes of the request header have been sent behind a complete greeting.
ReqHeaderSent == GreetingOk /\ Len(stream) >= ReqOff + 4

\* C22: a request whose version is not 0x05 is never answered: nothing is
\* written behind the auth reply and the connection ends closed. A request of
\* version 5 whose command is not 0x01 is answered with REP 0x07 whatever its
\* address type, 0x04 included. Neither is dialed, neither reaches the relay.
C22_RequestHeaderChecks ==
  (variant = "socks" /\ protocol = "SOCKS5" /\ ReqHeaderSent)
    => /\ stream[ReqOff + 1] # 5
            => /\ dialed = <<>>
               /\ hpc \in {"dispatch", "authHeader", "authMethods", "reqHeader", "closed"}
               /\ hpc = "closed" => written = <<AuthReply>>
       /\ (stream[ReqOff + 1] = 5 /\ stream[ReqOff + 2] # 1)
            => /\ dialed = <<>>
               /\ hpc \in {"dispatch", "authHeader", "authMethods", "reqHeader", "closed"}
               /\ hpc = "closed" => written = <<AuthReply, socks5Reply(7)>>
       /\ socks5Reply(7).bytes[2] = 7

\* C22 witness: a BIND request with an IPv6 address has been answered with
\* REP 0x07.
C22_Witness ==
  /\ variant = "socks"
  /\ ReqHeaderSent
  /\ stream[ReqOff + 1] = 5
  /\ stream[ReqOff + 2] = 2
  /\ stream[ReqOff + 4] = 4
  /\ hpc = "closed"
  /\ written = <<AuthReply, socks5Reply(7)>>

\* Where a connect request of address type 0x01 or 0x03 ends in the stream.
ReqEnd ==
  IF stream[ReqOff + 4] = 1 THEN ReqOff + 4 + 4 + 2
  ELSE ReqOff + 4 + 1 + stream[ReqOff + 5] + 2
\* The bytes read so far hold a greeting and a complete valid connect request.
ValidRequestRead ==
  /\ ReqHeaderSent
  /\ stream[ReqOff + 1] = 5
  /\ stream[ReqOff + 2] = 1
  /\ stream[ReqOff + 4] \in {1, 3}
  /\ Len(stream) >= ReqOff + 5
  /\ seen = Take(stream, ReqEnd)
  /\ Len(seen) = ReqEnd
RelayCalled == hpc \in {"relay", "relayWait", "deferTarget", "deferConn"} \/ c2t # "none"
SuccessReply == Frame("socks", <<5, 0, 0, 1, 0, 0, 0, 0, 0, 0>>)

\* C23: on a SOCKS5 connection the steps happen in the order auth request
\* read, auth reply written, connect request read, target dialed, success
\* reply written, relay started: whatever is written starts with the auth
\* reply, written once the greeting has been read; a dial is made only with
\* the auth reply written and a complete valid request read, and only once;
\* a success reply is written only behind a successful dial; relay is called,
\* and bytes are relayed, only behind the success reply {5, 0, 0, 1, 0...0};
\* at most one connect reply frame is written.
C23_HandshakeOrder ==
  (variant = "socks" /\ protocol = "SOCKS5")
    => /\ written # <<>>
            => /\ written[1] = AuthReply
               /\ GreetingOk
               /\ Len(seen) >= ReqOff
       /\ Len(seen) > 2 /\ GreetingOk /\ Len(seen) > ReqOff => written # <<>>
       /\ dialed # <<>>
            => /\ Len(dialed) = 1
               /\ written # <<>>
               /\ ValidRequestRead
       /\ Len(written) >= 2
            => /\ written[2].tag = "socks"
               /\ \E rep \in {0, 5, 7, 8} : written[2] = socks5Reply(rep)
               /\ written[2] = socks5Reply(0) => dialed # <<>> /\ dialed[1].ok
               /\ written[2] # socks5Reply(0) => Len(written) = 2
       /\ \A i \in 3..Len(written) : written[i].tag = "relay"
       /\ (RelayCalled \/ toTarget # <<>>)
            => /\ Len(written) >= 2
               /\ written[2] = SuccessReply
               /\ socks5Reply(0) = SuccessReply

\* C23 witness: behind greeting, auth reply, request, dial and success reply
\* the relay has carried bytes of the target to the client.
C23_Witness ==
  /\ variant = "socks"
  /\ protocol = "SOCKS5"
  /\ ValidRequestRead
  /\ dialed # <<>>
  /\ Len(written) = 3
  /\ written[1] = AuthReply
  /\ written[2] = SuccessReply
  /\ written[3] = Frame("relay", <<71, 72>>)

\* C24: a client that has sent a complete greeting of version 5 and then
\* waits, sending nothing more until it is answered, gets the auth reply:
\* once its connection is at rest, {0x05, 0x00} is the first frame written,
\* however few bytes follow the greeting.
C24_AuthReplyOnGreeting ==
  (variant = "socks" /\ GreetingOk /\ endKind = "stall" /\ hpc \in {"closed", "blocked"})
    => /\ written # <<>>
       /\ written[1] = AuthReply

\* The last four bytes of a response are the blank line: it has no body.
NoBody(bytes) == Len(bytes) >= 4 /\ SubSeq(bytes, Len(bytes) - 3, Len(bytes)) = CRLFCRLF

\* C25: handleHTTPConnect dials the authority of the request line, once.
\* Behind a failed dial the client gets "502 Bad Gateway" and nothing else, no
\* relay is called and the connection ends closed. Behind a successful dial
\* the first frame the client gets is "200 Connection established" without a
\* body; relay is called, and bytes of the target reach the client, only
\* behind it. Without a dial nothing is written.
C25_HttpConnect ==
  protocol = "CONNECT"
    => /\ dialed = <<>> => written = <<>> /\ ~RelayCalled
       /\ dialed # <<>>
            => /\ Len(dialed) = 1
               /\ ReadRequestOk(stream)
               /\ dialed[1].host = ConnectHost(stream)
               /\ ~dialed[1].ok
                    => /\ hpc \in {"httpDialed", "closed"}
                       /\ hpc = "httpDialed" => written = <<>>
                       /\ hpc = "closed" => written = <<Frame("http502", BadGateway)>>
                       /\ ~RelayCalled
                       /\ toTarget = <<>>
               /\ dialed[1].ok
                    => /\ hpc = "httpDialed" <=> written = <<>>
                       /\ written # <<>>
                            => /\ written[1] = Frame("http200", ConnectionEstablished)
                               /\ NoBody(written[1].bytes)
                       /\ \A i \in 2..Len(written) : written[i].tag = "relay"
                       /\ (RelayCalled \/ toTarget # <<>>) => written # <<>>

\* C25 witness: "CONNECT a.b:80" has been dialed and answered with 200, and
\* the target's bytes have followed on the client connection.
C25_Witness ==
  /\ protocol = "CONNECT"
  /\ dialed # <<>>
  /\ dialed[1].host = <<97, 46, 98, 58, 56, 48>>
  /\ written = <<Frame("http200", ConnectionEstablished), Frame("relay", <<71, 72>>)>>

\* A response as its reader takes it apart: the body behind the first blank
\* line, and the number in the Content-Length header.
BodyAt(resp) ==
  CHOOSE i \in 4..Len(resp) :
    /\ SubSeq(resp, i - 3, i) = CRLFCRLF
    /\ \A j \in 4..(i - 1) : SubSeq(resp, j - 3, j) # CRLFCRLF
BodyOf(resp) == Drop(resp, BodyAt(resp))
RECURSIVE ParseDecimal(_)
ParseDecimal(digits) ==
  IF digits = <<>> THEN 0
  ELSE 10 * ParseDecimal(Take(digits, Len(digits) - 1)) + (digits[Len(digits)] - 48)
ContentLengthOf(resp) ==
  ParseDecimal(Cut(Drop(resp, Len(ResponseHead)), 13).before)
\* The client has sent a whole request header.
HeaderSent == \E i \in 4..Len(stream) : SubSeq(stream, i - 3, i) = CRLFCRLF

\* C26: a connection classified HTTP is never dialed and never relayed. Once
\* its handler is over, a request that parsed has been answered with one
\* response: the 200 OK head, a Content-Length equal to the number of bytes of
\* the body, and the JSON body holding the method and the URL of the request;
\* a request that did not parse, or did not arrive whole, got no byte.
C26_PlainHttp ==
  protocol = "HTTP"
    => /\ dialed = <<>>
       /\ ~RelayCalled
       /\ toTarget = <<>>
       /\ hpc \in {"dispatch", "http", "closed", "blocked"}
       /\ hpc # "closed" => written = <<>>
       /\ hpc = "closed"
            => IF HeaderSent /\ ReadRequestOk(stream)
                 THEN LET l == parseRequestLine(RequestLine(stream)) IN
                      /\ Len(written) = 1
                      /\ written[1].tag = "http200json"
                      /\ Take(written[1].bytes, Len(ResponseHead)) = ResponseHead
                      /\ BodyOf(written[1].bytes) = Body(l.method, URLString(l.requestURI))
                      /\ ContentLengthOf(written[1].bytes) = Len(BodyOf(written[1].bytes))
                      /\ l.method # mCONNECT
                 ELSE written = <<>>

\* C26 witness: "GET /#" has been answered, the URL in its escaped form.
C26_Witness ==
  /\ protocol = "HTTP"
  /\ hpc = "closed"
  /\ Len(written) = 1
  /\ BodyOf(written[1].bytes) = Body(mGET, <<47, 37, 50, 51>>)
  /\ ContentLengthOf(written[1].bytes) = Len(JsonMethod) + Len(JsonUrl) + Len(JsonProtocol) + 7

RelayReturned == hpc \in {"deferTarget", "deferConn"} \/ (hpc = "closed" /\ c2t # "none")
RelayOver ==
  /\ hpc = "closed"
  /\ Closed("client")
  /\ Closed("target")
  /\ c2t = "done"
  /\ t2c = "done"

\* C27: relay returns only when one of the two copies has ended and signalled;
\* a goroutine about to signal is never kept waiting by the channel; and once
\* relay has returned, the state is reached, and kept, in which both
\* connections are closed and both goroutines have ended, the second and
\* third Close of a connection being steps like the first.
C27_RelayTerminates ==
  /\ [](RelayReturned => (c2t = "done" \/ t2c = "done"))
  /\ [](c2t = "signal" \/ t2c = "signal" => done < 2)
  /\ (RelayReturned ~> []RelayOver)

\* C27 witness: the relay is over and each connection has been closed twice,
\* by the goroutine that copied towards it and by the handler.
C27_Witness ==
  /\ RelayOver
  /\ nclose = [client |-> 2, target |-> 2]

\* The bytes of the target that have been written to the client, in order.
RECURSIVE RelayedBytes(_)
RelayedBytes(frames) ==
  IF frames = <<>> THEN <<>>
  ELSE (IF frames[1].tag = "relay" THEN frames[1].bytes ELSE <<>>)
         \o RelayedBytes(Drop(frames, 1))
RelayedToClient == RelayedBytes(written)

\* C28: in each direction of a relay the bytes copied are the bytes sent, in
\* order, and when the relay is over none is missing: everything a target
\* sent before closing has been written to the client, everything a client
\* sent to the relay before closing has been written to the target, whichever
\* direction ended first.
C28_NoDataDropped ==
  /\ RelayedToClient = Take(tstream, Len(RelayedToClient))
  /\ toTarget = SubSeq(stream, cpos + 1, cpos + Len(toTarget))
  /\ RelayOver
       => /\ tEnd = "close" => RelayedToClient = tstream
          /\ endKind = "close" => toTarget = Drop(stream, cpos)

\* C29: what the relay writes to the target is what the client sent behind
\* its handshake, from the first of those bytes on and in order: at any time
\* the bytes written to the target are the first bytes of the stream behind
\* the bytes the handshake has read.
C29_RelayFromFirstPayloadByte ==
  toTarget = SubSeq(stream, Len(seen) + 1, Len(seen) + Len(toTarget))

\* C30: every connection is handled by a goroutine of its own. A step of a
\* connection's handler changes that connection only: not the service (lock,
\* global pointer, running flags, listeners, contexts), not the accept loops,
\* not another connection. And whatever the connections accepted so far are
\* doing, an accept loop at Accept() with an open listener accepts the next
\* connection, and an accept loop at its select goes on.
C30_ConnectionIsolation ==
  [][/\ \A c \in Conns :
          (cst[c] # "none" /\ cst'[c] # cst[c])
            => /\ proxyVars' = proxyVars
               /\ servePc' = servePc
               /\ cown' = cown
               /\ \A b \in Conns \ {c} : cst'[b] = cst[b]
     /\ \A k \in Insts :
          /\ (servePc[k] = "accept" /\ listenerOpen[k] /\ \E c \in Conns : cst[c] = "none")
               => ENABLED (ServeAccept(k) /\ cst' # cst)
          /\ servePc[k] = "select" => ENABLED ServeSelect(k)
    ]_vars

\* C30 witness: with its first connection still in its handshake, instance 1
\* has accepted a second one, which has reached the relay, and is at Accept()
\* again, running, its listener open.
C30_Witness ==
  /\ cst[1] = "handling"
  /\ cst[2] = "relaying"
  /\ cown[1] = 1
  /\ cown[2] = 1
  /\ servePc[1] = "accept"
  /\ running[1]
  /\ listenerOpen[1]

\* The positions at which a protocol handler reads from the client.
HandshakeReads ==
  {"authHeader", "authMethods", "reqHeader", "reqIPv4", "reqDomLen", "reqDomain",
   "reqPort", "http", "httpConnect"}

\* C31: a peer that goes silent in the middle of a handshake has its
\* connection closed by a read timeout: whenever a handler's read waits for
\* bytes that a silent peer has not sent, a read deadline is set on the
\* connection, and no handler is ever left in a read that cannot return.
C31_StalledHandshakeTimesOut ==
  /\ (hpc \in HandshakeReads /\ endKind = "stall" /\ ~CanRead(NeedBytes)) => deadline
  /\ hpc # "blocked"

\* The scheduling the accept loop relies on: the goroutine of serve() runs,
\* Accept() on a closed listener returns, and a caller inside
\* stopProxyService goes on from cancel() to listener.Close().
SpecServeFair ==
  /\ SpecServe
  /\ \A k \in Insts : WF_vars(ServeSelect(k))
  /\ \A k \in Insts : WF_vars(ServeAccept(k) /\ ~listenerOpen[k])
  /\ \A t \in Threads : WF_vars(StopCancel(t))
  /\ \A t \in Threads : WF_vars(StopListener(t))

\* A step of instance k's accept loop in which Accept() returned an error.
AcceptError(k) ==
  /\ servePc[k] = "accept"
  /\ servePc'[k] # "accept"
  /\ cst' = cst

ClosedErrs == [k \in 1..Len(devices) |-> closeDone[devices[k]]]

\* The first non-nil error of a sequence of close results, nil if there is none.
RECURSIVE FirstNonNil(_)
FirstNonNil(errs) ==
  IF errs = <<>> THEN 0
  ELSE IF Head(errs) # 0 THEN Head(errs) ELSE FirstNonNil(Tail(errs))

Forwarding == {i \in Devs : fw[i] \in {"idle", "sending"}}

\* C34: once add has made a later device the newest, no event is taken from
\* an earlier device and none of its events reaches the multiplexer's event
\* stream; and in every state at most one device's events are being forwarded.
C34_EventsFromNewestOnly ==
  [][/\ \A i \in Devs :
          (fw'[i] # fw[i] /\ fw[i] \in {"idle", "sending"} /\ fw'[i] \in {"idle", "sending"})
            => i = nAdded
     /\ Cardinality(Forwarding') <= 1
    ]_vars

\* A step in which the pending Read, or the pending Write, got its reply.
ReadReplied == rdrPc = "sending" /\ rdrPc' = "idle"
WriteReplied == wtrPc = "sending" /\ wtrPc' = "idle"

\* C35: the caller's request is pending until a step serves it, and that step
\* is its one reply. When the device call of that step failed on a device
\* whose close channel is not closed, the reply carries the error, the device
\* is in the same select as before (the read source, the write target, with
\* no completion signal sent), and the list, the owner and every other
\* goroutine of the multiplexer are as they were.
C35_DeviceErrorsReturned ==
  [][/\ ReadReplied
          => /\ lastIO'.op = "read"
             /\ rd[lastIO'.dev] = "idle"
             /\ (lastIO'.ioErr /\ ~devClose[lastIO'.dev])
                  => /\ lastIO'.err
                     /\ rd' = rd
                     /\ rdDoneBuf' = rdDoneBuf
     /\ WriteReplied
          => /\ lastIO'.op = "write"
             /\ wr[lastIO'.dev] = "idle"
             /\ (lastIO'.ioErr /\ ~devClose[lastIO'.dev])
                  => /\ lastIO'.err
                     /\ wr' = wr
                     /\ closeCalls' = closeCalls
     /\ (ReadReplied \/ WriteReplied)
          => /\ ~(ReadReplied /\ WriteReplied)
             /\ (lastIO'.ioErr /\ ~devClose[lastIO'.dev])
                  => /\ <<devices, readDone, runDone, opc, oidx, devClose, dclose, panicked,
                          nAdded, ctlPc, ctlOp, closer, fw>>'
                        = <<devices, readDone, runDone, opc, oidx, devClose, dclose, panicked,
                            nAdded, ctlPc, ctlOp, closer, fw>>
                     /\ panicked = "none"
     /\ (rdrPc = "sending" /\ rdrPc' # "sending") => ReadReplied /\ lastIO' # NoIO
     /\ (wtrPc = "sending" /\ wtrPc' # "sending") => WriteReplied /\ lastIO' # NoIO
    ]_vars

\* C35 witness: two devices are in the list, the newest has failed a Write
\* and replied the error, and it still waits for writes; the oldest, not yet
\* told to stop by a failed read, is the read source.
C35_Witness ==
  /\ Len(devices) = 2
  /\ lastIO.op = "write"
  /\ lastIO.ioErr
  /\ lastIO.err
  /\ lastIO.dev = devices[2]
  /\ wr[devices[2]] = "idle"
  /\ rd[devices[1]] = "idle"
  /\ opc = "select"

\* The devices with a readFrom goroutine, and those with a runDevice goroutine
\* (in its select, or returning with its closeDone not yet received).
ReadWorkers == {i \in Devs : rd[i] = "idle"}
WriteWorkers == {i \in Devs : wr[i] \in {"idle", "closing"}}

\* C36: under add, Shutdown, Read and Write, in any order and with the
\* workers' completion signals handled at any time, at most one readFrom
\* goroutine and at most one runDevice goroutine exist in every state.
C36_OneWorkerEach ==
  ~dclose => /\ Cardinality(ReadWorkers) <= 1
             /\ Cardinality(WriteWorkers) <= 1

\* C36 witness: in the middle of a hand-over the read worker is the oldest
\* device's and the write worker, started on the completion signal of an
\* earlier one, is the newest device's.
C36_Witness ==
  /\ ~dclose
  /\ Len(devices) >= 2
  /\ ReadWorkers = {Head(devices)}
  /\ WriteWorkers = {Last(devices)}
  /\ \E i \in Devs : wr[i] = "exited"

\* C37: no device has its Close called a second time, no device whose
\* runDevice has returned gets another runDevice, and the device that serves
\* a Write has not had its Close called.
C37_ClosedOnce ==
  [][/\ \A i \in Devs :
          /\ closeCalls'[i] <= 1
          /\ wr[i] \in {"closing", "exited"} => wr'[i] # "idle"
     /\ WriteReplied => closeCalls[lastIO'.dev] = 0
    ]_vars

\* C38: driven by the backend's main loop the device list never has more than
\* one device: updateTUN reaches its builder and its add only behind a
\* Shutdown that has emptied the list, every add is made by updateTUN and is
\* applied to an empty list, and the disconnect and failure paths add nothing.
C38_BackendOneDevice ==
  [][/\ Len(devices') <= 1
     /\ bpc' \in {"build", "add"} => devices' = <<>>
     /\ nAdded' # nAdded => /\ devices = <<>>
                            /\ bpc = "addWait"
                            /\ bctx = "update"
    ]_vars

\* C38 witness: the main loop is back at its select after a second updateTUN
\* has replaced the first device: one device in the list, two added.
C38_Witness ==
  /\ bpc = "select"
  /\ nAdded = 2
  /\ devices = <<2>>
  /\ lastCfg # 0

\* The main loop is inside its configs case: at the reply, or in the
\* updateTUN the case called.
InConfigsCase ==
  \/ bpc = "reply"
  \/ /\ bret = "configs"
     /\ bctx = "update"
     /\ bpc \in {"closeTUNs", "shutdownWait", "build", "add", "addWait", "start", "startWait"}

\* C39: a configuration leaves the callback's send only into the configs case,
\* which goes to its reply with nil when there is no VPN service or nothing
\* changed and into updateTUN otherwise; as long as the callback waits on
\* configErrs the main loop is inside that case; the main loop is at a reply
\* only with the callback waiting for it, so the send never blocks; and the
\* callback leaves its wait only through that reply, returning its value.
C39_ConfigAnsweredOnce ==
  [][/\ (cbPc = "sending" /\ cbPc' # "sending")
          => /\ cbPc' = "waiting"
             /\ bpc = "select"
             /\ IF service = 0 \/ ~isConfigNonNilAndDifferent(cbCfg)
                  THEN bpc' = "reply" /\ bres' = "nil"
                  ELSE bpc' = "closeTUNs" /\ bret' = "configs" /\ bctx' = "update"
     /\ (cbPc = "waiting" /\ cbPc' # "waiting")
          => /\ cbPc' = "idle"
             /\ bpc = "reply"
             /\ bpc' = "select"
             /\ cbRes' = bres
     /\ cbPc' = "waiting" <=> InConfigsCase'
     /\ (bpc = "reply" /\ cbPc = "waiting") => ENABLED BackendReply
    ]_vars

\* C39 witness: the callback has returned the error of the updateTUN its
\* configuration caused, and the main loop is at its select again.
C39_Witness ==
  /\ cbPc = "idle"
  /\ cbRes = "err"
  /\ bpc = "select"
  /\ bret = "configs"
  /\ HasAddrs(cbCfg.r)

\* The handler has taken exactly the first k bytes of the client's stream.
ConsumedTo(k) == Len(stream) >= k /\ seen = Take(stream, k)

\* C40: in socks5Connect an IPv4 address takes exactly 4 bytes, a domain name
\* takes its length byte and then exactly as many bytes as that byte says,
\* none when it is 0, and the port takes exactly the 2 bytes that follow; the
\* handler dials once, after the port, with port = 256 * first + second, a
\* number of 0..65535, and with the host the dotted text of the 4 address
\* bytes or the bytes of the domain name as they came.
C40_TargetDecoding ==
  [][protocol = "SOCKS5" =>
       /\ (hpc = "reqIPv4" /\ hpc' = "reqPort")
            => ConsumedTo(ReqOff + 4) /\ ConsumedTo(ReqOff + 8)'
       /\ (hpc = "reqDomLen" /\ hpc' = "reqDomain")
            => ConsumedTo(ReqOff + 4) /\ ConsumedTo(ReqOff + 5)'
       /\ (hpc = "reqDomain" /\ hpc' = "reqPort")
            => ConsumedTo(ReqOff + 5) /\ ConsumedTo(ReqOff + 5 + stream[ReqOff + 5])'
       /\ (hpc = "reqPort" /\ hpc' = "socksDialed")
            => /\ ConsumedTo(ReqEnd - 2) /\ ConsumedTo(ReqEnd)'
               /\ dialed = <<>> /\ Len(dialed') = 1
               /\ LET d == dialed'[1]
                      a == ReqOff + 4
                  IN  /\ d.atyp = stream[a] /\ d.atyp \in {1, 3}
                      /\ d.port = 256 * stream[ReqEnd - 1] + stream[ReqEnd]
                      /\ d.port \in 0..65535
                      /\ d.atyp = 1 => d.host = IPString(SubSeq(stream, a + 1, a + 4))
                      /\ d.atyp = 3 => d.host = SubSeq(stream, a + 2, a + 1 + stream[a + 1])
       /\ dialed' # dialed => hpc = "reqPort" /\ hpc' = "socksDialed"
    ]_vars

\* C40 witness: 192.168.0.255 with the port bytes 1, 0 has been dialed as
\* "192.168.0.255", port 256, after the ten bytes of the request.
C40_Witness ==
  /\ protocol = "SOCKS5"
  /\ hpc = "socksDialed"
  /\ seen = <<5, 1, 0, 5, 1, 0, 1, 192, 168, 0, 255, 1, 0>>
  /\ dialed[1].host = <<49, 57, 50, 46, 49, 54, 56, 46, 48, 46, 50, 53, 53>>
  /\ dialed[1].port = 256

====
